---- MODULE Spec2Model ----
(***************************************************************************)
(* The person-identity resolver of the plugin server's event ingestion:    *)
(* EventsProcessor (src/src/worker/ingestion/process-event.ts) running in  *)
(* concurrent workers against the shared relational Person Store, DB       *)
(* (src/unnamed/part_000).  Every `await` on a database query is one       *)
(* atomic step of a worker; workers interleave between the steps.          *)
(***************************************************************************)
EXTENDS Integers, Sequences, FiniteSets, TLC

\* ------------------------------------------------------------------ bounds
\* created_at values are 1..MaxTime
MaxTime == 2
\* property values are 1..MaxVal; 0 stands for "key absent"
MaxVal == 2
\* events the two workers process in one concurrent run
MaxEvents == 2
\* events the worker processes in one run with no concurrent peer
MaxSeqEvents == 1
\* calls of the Person Store issued in the store-level specification
MaxCalls == 4
\* events of one run of concurrent merges: the first is worker w1's (the
\* three persons being alike, the alias of "a" to "b"), the others its peer's
MaxMergeEvents == 3

\* calls of createElementGroup by its concurrent clients
MaxGroupCalls == 3
\* calls of postgresTransaction by its client
MaxTransactions == 2
\* the largest totalMergeAttempts mergePeople is called with directly
MaxTotalMergeAttempts == 4
\* worker threads of the pool (WORKER_CONCURRENCY), tasks in flight per
\* worker (TASKS_PER_WORKER), tasks submitted to the pool, worker crashes
MaxWorkers == 2
MaxTasksPerWorker == 2
MaxTasks == 5
MaxCrashes == 1

\* ------------------------------------------------------- program constants
MAX_FAILED_PERSON_MERGE_ATTEMPTS == 3

Workers == {"w1", "w2"}
Teams == {1, 2}
DistinctIds == {"a", "b", "x"}
Keys == {"k"}
Times == 1..MaxTime
Absent == 0
Vals == 0..MaxVal
Props == [Keys -> Vals]
EmptyProps == [k \in Keys |-> Absent]
None == "none"

VARIABLES
    persons,        \* posthog_person rows
    pdi,            \* posthog_persondistinctid rows
    nextPersonId,   \* posthog_person.id sequence
    nextPdiId,      \* posthog_persondistinctid.id sequence
    cohortpeople,   \* posthog_cohortpeople rows, as the person_id of each
    tx,             \* per worker: the open deletePerson transaction
    pc,             \* per worker: position in processEvent
    ev,             \* per worker: the event being processed
    oldPerson,      \* per worker: alias' oldPerson / mergePeople's otherPerson
    newPerson,      \* per worker: alias' newPerson / mergePeople's mergeInto
    personFound,    \* per worker: setIsIdentified's personFound
    incremented,    \* per worker: updatePersonProperties' incrementedPropertiesQueryResult
    retryIfFailed,  \* per worker: alias' retryIfFailed
    failedAttempts, \* per worker: alias' totalMergeAttempts / mergePeople's failedAttempts
    idError,        \* per worker: error thrown out of handleIdentifyOrAlias, or None
    outcome,        \* per worker: how processEvent ended
    result,         \* per worker: what processEvent returned
    nEvents,        \* events started (store calls, in the store-level specification)
    sink,           \* canonical and session-recording events written
    elementgroups,  \* posthog_elementgroup rows, each with its posthog_element rows
    kafkaProducer,  \* the log producer: whether it is configured, and its queue
    sentry,         \* per worker: number of Sentry.captureException calls
    pool,           \* the worker pool: its configuration, its queue and its tasks
    timers,         \* per worker: the watchdogs of processEvent, pending and fired
    pg,             \* a client of postgresTransaction: its position, connection and timer
    hist            \* per worker: observations of the current call, for the properties

vars == <<persons, pdi, nextPersonId, nextPdiId, cohortpeople, tx, pc, ev,
          oldPerson, newPerson, personFound, incremented, retryIfFailed, failedAttempts,
          idError, outcome, result, nEvents, sink, elementgroups, kafkaProducer, sentry,
          pool, timers, pg, hist>>

dbVars == <<persons, pdi, nextPersonId, nextPdiId, cohortpeople, kafkaProducer, pool, pg>>
localVars == <<oldPerson, newPerson, personFound, incremented, retryIfFailed,
               failedAttempts>>

\* --------------------------------------------------------------- rows
\* incrementedPropertiesQueryResult: null, or the rows the query returned
NoQueryResult == [called |-> FALSE, rows |-> <<>>]
QueryResult(rows) == [called |-> TRUE, rows |-> rows]

\* the result of processEvent before it is assigned, and of a $snapshot event
undefined == [defined |-> FALSE]

NoPerson == [id |-> 0, team_id |-> 0, created_at |-> 0,
             properties |-> EmptyProps, is_identified |-> FALSE]
NoGroup == [id |-> 0, hash |-> [of |-> <<>>], team_id |-> 0, elements |-> <<>>]
NoTx == [open |-> FALSE, person_id |-> 0, rows |-> {}, group |-> NoGroup]

PersonRow(id, team, createdAt, props, isIdentified) ==
    [id |-> id, team_id |-> team, created_at |-> createdAt,
     properties |-> props, is_identified |-> isIdentified]

PdiRow(id, d, personId, team) ==
    [id |-> id, distinct_id |-> d, person_id |-> personId, team_id |-> team]

\* this.kafkaProducer of a deployment without the log, and with it
NoProducer == [configured |-> FALSE, queue |-> <<>>]
Producer == [configured |-> TRUE, queue |-> <<>>]

\* the message of topic KAFKA_PERSON that describes person
PersonMessage(person) ==
    [topic |-> "person", id |-> person.id, team_id |-> person.team_id,
     created_at |-> person.created_at, properties |-> person.properties,
     is_identified |-> person.is_identified]

\* the message of topic KAFKA_PERSON_UNIQUE_ID that describes a distinct-id row
PersonDistinctIdMessage(row) ==
    [topic |-> "person_unique_id", id |-> row.id, team_id |-> row.team_id,
     distinct_id |-> row.distinct_id, person_id |-> row.person_id]

\* if (this.kafkaProducer) await this.kafkaProducer.queueMessage(m), for each
\* m of messages
queueMessages(producer, messages) ==
    IF producer.configured THEN [producer EXCEPT !.queue = @ \o messages] ELSE producer

\* the spread with its operands swapped: the keys of base win
Spread_BaseWins(base, top) == [k \in Keys |-> IF base[k] # Absent THEN base[k] ELSE top[k]]

\* { ...base, ...top }: the keys of top win
Spread(base, top) == [k \in Keys |-> IF top[k] # Absent THEN top[k] ELSE base[k]]

PersonExists(P, id) == \E p \in P : p.id = id

\* the unique index on posthog_persondistinctid (team_id, distinct_id)
UniqueViolation(D, team, d) == \E r \in D : r.team_id = team /\ r.distinct_id = d

\* the foreign key posthog_persondistinctid.person_id -> posthog_person.id
ForeignKeyViolation(P, personId) == ~PersonExists(P, personId)

\* the error of a failed query: a DatabaseError with the code of the violation
unique_violation == [name |-> "DatabaseError", code |-> "23505"]
foreign_key_violation == [name |-> "DatabaseError", code |-> "23503"]
NoError == [name |-> "none", code |-> "none"]

\* rows another worker's open transaction has deleted and not yet committed:
\* they are still visible to readers, and a writer of one of them waits
LockedRows(w) == UNION {tx[v].rows : v \in Workers \ {w}}

\* ------------------------------------------------------------ Person Store
fetchPerson(P, D, teamId, distinctId) ==
    LET rows == {p \in P : /\ p.team_id = teamId
                           /\ \E r \in D : /\ r.person_id = p.id
                                           /\ r.team_id = teamId
                                           /\ r.distinct_id = distinctId}
    IN IF rows # {} THEN CHOOSE p \in rows : TRUE ELSE NoPerson

\* the INSERT without the unique index on (team_id, distinct_id)
addDistinctIdPooled_NoUnique(P, D, nid, person, distinctId) ==
    IF ForeignKeyViolation(P, person.id)
    THEN [ok |-> FALSE, pdi |-> D, nid |-> nid, messages |-> <<>>,
          error |-> foreign_key_violation]
    ELSE LET row == PdiRow(nid, distinctId, person.id, person.team_id)
         IN [ok |-> TRUE, nid |-> nid + 1, pdi |-> D \cup {row},
             messages |-> <<PersonDistinctIdMessage(row)>>, error |-> NoError]

\* INSERT INTO posthog_persondistinctid (distinct_id, person_id, team_id):
\* client.query is called directly, so a failed INSERT throws the driver's
\* own error, which carries the code of the violation
addDistinctIdPooled(P, D, nid, person, distinctId) ==
    IF UniqueViolation(D, person.team_id, distinctId)
    THEN [ok |-> FALSE, pdi |-> D, nid |-> nid, messages |-> <<>>,
          error |-> unique_violation]
    ELSE IF ForeignKeyViolation(P, person.id)
    THEN [ok |-> FALSE, pdi |-> D, nid |-> nid, messages |-> <<>>,
          error |-> foreign_key_violation]
    ELSE LET row == PdiRow(nid, distinctId, person.id, person.team_id)
         IN [ok |-> TRUE, nid |-> nid + 1, pdi |-> D \cup {row},
             messages |-> <<PersonDistinctIdMessage(row)>>, error |-> NoError]

\* the loop of createPerson over distinctIds, inside its transaction
RECURSIVE addDistinctIds(_, _, _, _, _)
addDistinctIds(P, D, nid, person, distinctIds) ==
    IF distinctIds = <<>> THEN [ok |-> TRUE, pdi |-> D, nid |-> nid, messages |-> <<>>]
    ELSE LET r == addDistinctIdPooled(P, D, nid, person, Head(distinctIds))
         IN IF r.ok
            THEN LET rest == addDistinctIds(P, r.pdi, r.nid, person, Tail(distinctIds))
                 IN [rest EXCEPT !.messages = r.messages \o @]
            ELSE r

\* createPerson without the transaction: a failed insert keeps what preceded it
createPerson_NoRollback(P, D, pid, nid, createdAt, props, teamId, isIdentified, distinctIds) ==
    LET person == PersonRow(pid, teamId, createdAt, props, isIdentified)
        r == addDistinctIds(P \cup {person}, D, nid, person, distinctIds)
    IN [ok |-> r.ok, person |-> person, persons |-> P \cup {person},
        pdi |-> r.pdi, pid |-> pid + 1, nid |-> r.nid,
        messages |-> IF r.ok THEN <<PersonMessage(person)>> \o r.messages ELSE <<>>]

\* one transaction: INSERT the person, then each distinct id; any failure rolls
\* all of it back.  The transaction is taken at its commit: a concurrent insert
\* of one of its keys either precedes it (and it fails) or waits for it.  The
\* messages accumulated are queued after the commit, none when it failed.
createPerson(P, D, pid, nid, createdAt, props, teamId, isIdentified, distinctIds) ==
    LET person == PersonRow(pid, teamId, createdAt, props, isIdentified)
        r == addDistinctIds(P \cup {person}, D, nid, person, distinctIds)
    IN IF r.ok
       THEN [ok |-> TRUE, person |-> person, persons |-> P \cup {person},
             pdi |-> r.pdi, pid |-> pid + 1, nid |-> r.nid,
             messages |-> <<PersonMessage(person)>> \o r.messages]
       ELSE [ok |-> FALSE, person |-> NoPerson, persons |-> P,
             pdi |-> D, pid |-> pid, nid |-> nid, messages |-> <<>>]

\* the row with the fields of update set
Updated(p, update) ==
    [id |-> p.id, team_id |-> p.team_id,
     created_at |-> IF "created_at" \in DOMAIN update THEN update.created_at
                    ELSE p.created_at,
     properties |-> IF "properties" \in DOMAIN update THEN update.properties
                    ELSE p.properties,
     is_identified |-> IF "is_identified" \in DOMAIN update THEN update.is_identified
                       ELSE p.is_identified]

\* UPDATE posthog_person SET <the fields of update> WHERE id = person.id
updatePerson(P, person, update) ==
    {IF p.id = person.id THEN Updated(p, update) ELSE p : p \in P}

\* an updatePerson that queues nothing
updatePersonMessages_None(person, update) == <<>>

\* updatePerson's message: updatedPerson = { ...person, ...update }, built from
\* the caller's person and queued whatever the UPDATE matched
updatePersonMessages(person, update) == <<PersonMessage(Updated(person, update))>>

\* deletePerson, first statement: DELETE FROM posthog_persondistinctid WHERE
\* person_id = person.id.  The rows stay visible until the commit.
deletePersonRows(D, person) == {r \in D : r.person_id = person.id}

\* deletePerson, second statement and COMMIT: DELETE FROM posthog_person WHERE
\* id = person.id fails on the foreign key when a row that the first statement
\* did not delete references the person, and the transaction is rolled back.
deletePersonCommit(P, D, t) ==
    IF \E r \in D \ t.rows : r.person_id = t.person_id
    THEN [ok |-> FALSE, persons |-> P, pdi |-> D]
    ELSE [ok |-> TRUE, persons |-> {p \in P : p.id # t.person_id}, pdi |-> D \ t.rows]

\* UPDATE posthog_persondistinctid SET person_id = moveToPerson.id WHERE id = $2
moveDistinctId(P, D, personDistinctId, moveToPerson) ==
    LET moved == [personDistinctId EXCEPT !.person_id = moveToPerson.id]
    IN IF ~\E r \in D : r.id = personDistinctId.id
       THEN [ok |-> TRUE, pdi |-> D, messages |-> <<PersonDistinctIdMessage(moved)>>]
       ELSE IF ForeignKeyViolation(P, moveToPerson.id)
       THEN [ok |-> FALSE, pdi |-> D, messages |-> <<>>]
       ELSE [ok |-> TRUE,
             pdi |-> {IF r.id = personDistinctId.id
                      THEN [r EXCEPT !.person_id = moveToPerson.id] ELSE r : r \in D},
             messages |-> <<PersonDistinctIdMessage(moved)>>]

\* one message per row of rows, in the order of the rows' ids
RECURSIVE RowMessages(_)
RowMessages(rows) ==
    IF rows = {} THEN <<>>
    ELSE LET first == CHOOSE r \in rows : \A q \in rows : r.id <= q.id
         IN <<PersonDistinctIdMessage(first)>> \o RowMessages(rows \ {first})

\* DB.moveDistinctIds(source, target) is called by mergePeople and is not in
\* the store's source: one UPDATE of every row of source, which raises
\* RaceConditionError when the target person was deleted meanwhile, and one
\* message per moved row after it.
moveDistinctIds(P, D, source, target) ==
    LET rows == {r \in D : r.person_id = source.id /\ r.team_id = target.team_id}
        moved == {[r EXCEPT !.person_id = target.id] : r \in rows}
    IN IF rows = {} THEN [ok |-> TRUE, pdi |-> D, messages |-> <<>>]
       ELSE IF ForeignKeyViolation(P, target.id)
       THEN [ok |-> FALSE, pdi |-> D, messages |-> <<>>]
       ELSE [ok |-> TRUE, pdi |-> (D \ rows) \cup moved, messages |-> RowMessages(moved)]

\* PersonManager.isNewPerson is not in the source either: no distinct-id row
\* of the team carries the distinct id
isNewPerson(D, teamId, distinctId) ==
    ~\E r \in D : r.team_id = teamId /\ r.distinct_id = distinctId

\* ---------------------------------------------------------- handleTimestamp
\* A DateTime is valid, at an instant, or invalid; so is a Duration.
DateTimeAt(t) == [valid |-> TRUE, at |-> t]
InvalidDateTime == [valid |-> FALSE, at |-> 0]

\* sentAt: DateTime | null, as its instant or NoTime
NoTime == 0

\* data.timestamp: undefined, or a string: empty, ISO 8601 (which new Date
\* and DateTime.fromISO both parse), of a format only new Date parses, or
\* one that neither parses
TimestampKinds == {"undefined", "empty", "iso", "js", "unparsable"}
NoTimestamp == [kind |-> "undefined", at |-> 0]
Timestamps ==
    {NoTimestamp, [kind |-> "empty", at |-> 0], [kind |-> "unparsable", at |-> 0]}
    \cup [kind : {"iso", "js"}, at : Times]

\* DateTime.fromJSDate(new Date(timestamp))
fromJSDate(timestamp) ==
    IF timestamp.kind \in {"iso", "js"} THEN DateTimeAt(timestamp.at) ELSE InvalidDateTime

\* DateTime.fromISO(timestamp)
fromISO(timestamp) ==
    IF timestamp.kind = "iso" THEN DateTimeAt(timestamp.at) ELSE InvalidDateTime

\* a.diff(b) and now.plus(duration): invalid when an operand is
diff(a, b) ==
    IF a.valid /\ b.valid THEN DateTimeAt(a.at - b.at) ELSE InvalidDateTime
plus(a, duration) ==
    IF a.valid /\ duration.valid THEN DateTimeAt(a.at + duration.at) ELSE InvalidDateTime

\* handleTimestamp with the offset looked at first
handleTimestamp_OffsetFirst(data, now, sentAt) ==
    IF data.offset # 0
    THEN DateTimeAt(now - data.offset)
    ELSE IF data.timestamp.kind \notin {"undefined", "empty"}
    THEN IF sentAt # NoTime
         THEN plus(DateTimeAt(now), diff(fromJSDate(data.timestamp), DateTimeAt(sentAt)))
         ELSE fromISO(data.timestamp)
    ELSE DateTimeAt(now)

\* if (data['timestamp']) is false of undefined and of the empty string, and
\* if (data['offset']) of undefined and of 0.  The calls in the try block
\* return invalid values and do not throw, so its catch is never entered.
handleTimestamp(data, now, sentAt) ==
    IF data.timestamp.kind \notin {"undefined", "empty"}
    THEN IF sentAt # NoTime
         THEN plus(DateTimeAt(now), diff(fromJSDate(data.timestamp), DateTimeAt(sentAt)))
         ELSE fromISO(data.timestamp)
    ELSE IF data.offset # 0
    THEN DateTimeAt(now - data.offset)
    ELSE DateTimeAt(now)

\* ------------------------------------------------------------ observation
\* the distinct ids attached to person id
IdsOf(D, id) == {r.distinct_id : r \in {q \in D : q.person_id = id}}

InMerge(p) == p \in {"merge_update", "merge_cohort", "merge_move",
                     "merge_delete_rows", "merge_delete_commit"}

\* ---------------------------------------------- the watchdogs of processEvent
\* timeoutGuard(message, context) sets a timer that logs message when it
\* fires; the timers are named after the call they watch.
NoTimers == [pending |-> {}, fired |-> {}]

\* the positions outside processEvent, and those of handleIdentifyOrAlias
CallerPcs == {"idle", "off", "store", "store_delete_commit", "eg_insert_group",
              "eg_insert_element", "eg_commit"}
IdentityPcs == {"alias_fetch_old", "alias_fetch_new", "alias_add_new", "alias_add_prev",
                "alias_create", "merge_update", "merge_cohort", "merge_move",
                "merge_delete_rows", "merge_delete_commit", "sii_fetch", "sii_create",
                "sii_refetch", "sii_update"}

\* timeout1, or timeout2 ($snapshot) or timeout3: the watchdog of position p
InnerTimer(p, e) ==
    IF p \in IdentityPcs THEN "handleIdentifyOrAlias"
    ELSE IF e.event = "$snapshot" THEN "createSessionRecordingEvent" ELSE "capture"

\* processEvent without clearTimeout(timeout1)
Watchdogs_NoFinally(p, q, e, T) ==
    IF p = q \/ (p \in CallerPcs /\ q \in CallerPcs) THEN T
    ELSE IF p \in CallerPcs
    THEN [pending |-> {"processEvent"} \cup
                      (IF q \in IdentityPcs THEN {} ELSE {"handleIdentifyOrAlias"}) \cup
                      {InnerTimer(q, e)},
          fired |-> {}]
    ELSE IF q \in CallerPcs
    THEN [T EXCEPT !.pending = @ \ {InnerTimer(p, e), "processEvent"}]
    ELSE IF p \in IdentityPcs /\ q \notin IdentityPcs
    THEN [T EXCEPT !.pending = @ \cup {InnerTimer(q, e)}]
    ELSE T

\* the timers of a worker that goes from position p to position q of
\* processEvent(e): timeout and timeout1 are set when it starts; the finally
\* of handleIdentifyOrAlias clears timeout1 and timeout2 or timeout3 is set;
\* the finally blocks clear the inner timer and timeout when it ends
Watchdogs(p, q, e, T) ==
    IF p = q \/ (p \in CallerPcs /\ q \in CallerPcs) THEN T
    ELSE IF p \in CallerPcs
    THEN [pending |-> {"processEvent", InnerTimer(q, e)}, fired |-> {}]
    ELSE IF q \in CallerPcs
    THEN [T EXCEPT !.pending = @ \ {InnerTimer(p, e), "processEvent"}]
    ELSE IF p \in IdentityPcs /\ q \notin IdentityPcs
    THEN [T EXCEPT !.pending = (@ \ {InnerTimer(p, e)}) \cup {InnerTimer(q, e)}]
    ELSE T

\* a watchdog of w fires: timeoutGuard's callback logs its message
WatchdogFires(w, timer) ==
    /\ timer \in timers[w].pending
    /\ timers' = [timers EXCEPT ![w] = [pending |-> @.pending \ {timer},
                                        fired |-> @.fired \cup {timer}]]
    /\ UNCHANGED <<persons, pdi, nextPersonId, nextPdiId, cohortpeople, kafkaProducer, pool, pg,
                   tx, pc, ev, oldPerson, newPerson, personFound, incremented,
                   retryIfFailed, failedAttempts, idError, outcome, result, nEvents, sink,
                   elementgroups, sentry, hist>>

\* hist[w].onOther: every distinct id seen attached to otherPerson while w's
\* mergePeople runs.  Conjoined to every action, it reads the next state.
Observe(w, h) ==
    /\ hist' = [v \in Workers |->
                  LET g == IF v = w THEN h ELSE hist[v]
                  IN IF InMerge(pc'[v])
                     THEN [g EXCEPT !.onOther = @ \cup IdsOf(pdi', oldPerson'[v].id)]
                     ELSE g]
    /\ timers' = [v \in Workers |-> Watchdogs(pc[v], pc'[v], ev'[v], timers[v])]

\* w runs with no concurrent peer: the other workers are switched off
Alone(w) == \A v \in Workers \ {w} : pc[v] = "off"

\* hist[w].add: the last addDistinctId call of a client of the store;
\* hist[w].persons, hist[w].pdi: the store when w's event started, recorded
\* in the runs with no concurrent peer; hist[w].updates: the updatePerson
\* calls of updatePersonProperties; hist[w].definitions: the calls of
\* updateEventNamesAndProperties; hist[w].extracted: extractElements was called
NoHist == [n |-> 0, restarts |-> 0, mergeRestarts |-> 0, moveFails |-> 0,
           deleteFails |-> 0, caught |-> FALSE, guarded |-> FALSE, ts |-> InvalidDateTime,
           updates |-> 0, definitions |-> 0, extracted |-> FALSE,
           onOther |-> {}, merged |-> FALSE,
           add |-> [n |-> 0, distinct_id |-> "none", error |-> NoError],
           persons |-> {}, pdi |-> {}, other |-> NoPerson, into |-> NoPerson]

\* ------------------------------------------------------------ processEvent
EventNames == {"$create_alias", "$identify", "$pageview", "$snapshot"}

\* the events a worker may be handed: $create_alias carries properties.alias,
\* $identify may carry $anon_distinct_id
\* An event also carries: whether eventUuid is a valid UUID; data.timestamp,
\* data.offset, sentAt and now; whether properties hold $set or $set_once, and
\* their keys; and the write of its processing that the environment fails.
\* It carries too: the numeric amounts of $increment (filterIncrementProperties
\* drops the others); ip, null (None), empty or an address; the $ip of its
\* properties if they have one (props_ip); the $elements of its properties.
\* PlainEvent is the event with none of these: a valid uuid, no timestamp, no
\* offset, no sentAt, no $set, no $set_once, no $increment, a null ip, no $ip,
\* no $elements, and no failing write.
PlainEvent(name, alias, distinctId, teamId) ==
    [event |-> name, distinct_id |-> distinctId, alias |-> alias, team_id |-> teamId,
     uuid_valid |-> TRUE, timestamp |-> NoTimestamp, offset |-> 0, sent_at |-> NoTime,
     now |-> MaxTime, props_given |-> FALSE, set |-> EmptyProps, set_once |-> EmptyProps,
     increment |-> EmptyProps, ip |-> None, props_ip |-> None, elements |-> <<>>,
     fault |-> None]

Events == {PlainEvent(e.event, e.alias, e.distinct_id, e.team_id) :
             e \in {x \in [event : EventNames, distinct_id : DistinctIds,
                            alias : DistinctIds \cup {None}, team_id : Teams] :
                       /\ x.event = "$create_alias" => x.alias # None
                       /\ x.event \in {"$pageview", "$snapshot"} => x.alias = None}}

NoEvent == PlainEvent(None, None, None, 0)

\* handleIdentifyOrAlias: where processEvent goes first
IdentityPc(e) ==
    IF e.event = "$create_alias" THEN "alias_fetch_old"
    ELSE IF e.event = "$identify"
         THEN (IF e.alias # None THEN "alias_fetch_old" ELSE "sii_fetch")
    ELSE "cap_isnew"

\* where handleIdentifyOrAlias goes when alias returns
AfterAliasPc(e) == IF e.event = "$identify" THEN "sii_fetch" ELSE "cap_isnew"

Event(name, alias, distinctId) == PlainEvent(name, alias, distinctId, 1)

\* the events of the runs with no concurrent peer: those of team 1
SeqEvents == {e \in Events : e.team_id = 1}

\* the events of the concurrent runs: the two merges of the persons of "a" and
\* of "b", the aliases that attach "x" to the person of "a", the alias of "x"
\* to itself, and the events that create the person of "x"
RaceEvents ==
    {Event("$create_alias", "a", "b"), Event("$create_alias", "b", "a"),
     Event("$create_alias", "a", "x"), Event("$create_alias", "x", "a"),
     Event("$create_alias", "x", "x"),
     Event("$identify", None, "x"), Event("$identify", "a", "x"),
     Event("$pageview", None, "x"), Event("$snapshot", None, "x")}

\* a validation that accepts every uuid
validateString_Always(eventUuid) == TRUE

\* UUID.validateString(eventUuid, false)
validateString(eventUuid) == eventUuid.uuid_valid

StartEventUpTo(w, e, cap) ==
    /\ pc[w] = "idle"
    /\ nEvents < cap
    /\ nEvents' = nEvents + 1
    /\ ev' = [ev EXCEPT ![w] = e]
    /\ idError' = [idError EXCEPT ![w] = None]
    /\ UNCHANGED <<dbVars, tx, sink, elementgroups, sentry>>
    /\ IF ~validateString(e)
       THEN \* throw new Error(`Not a valid UUID: "${eventUuid}"`)
            /\ outcome' = [outcome EXCEPT ![w] = "Not a valid UUID"]
            /\ result' = [result EXCEPT ![w] = undefined]
            /\ UNCHANGED <<pc, localVars>>
            /\ Observe(w, [NoHist EXCEPT !.n = nEvents + 1])
       ELSE \* the watchdogs are started, ts is computed, and
            \* handleIdentifyOrAlias runs up to its first query
            /\ pc' = [pc EXCEPT ![w] = IdentityPc(e)]
            /\ oldPerson' = [oldPerson EXCEPT ![w] = NoPerson]
            /\ newPerson' = [newPerson EXCEPT ![w] = NoPerson]
            /\ personFound' = [personFound EXCEPT ![w] = NoPerson]
            /\ incremented' = [incremented EXCEPT ![w] = NoQueryResult]
            /\ retryIfFailed' = [retryIfFailed EXCEPT ![w] = TRUE]
            /\ failedAttempts' = [failedAttempts EXCEPT ![w] = 0]
            /\ outcome' = [outcome EXCEPT ![w] = None]
            /\ result' = [result EXCEPT ![w] = undefined]
            /\ LET h == [NoHist EXCEPT !.n = nEvents + 1, !.guarded = TRUE,
                                       !.ts = handleTimestamp(e, e.now, e.sent_at)]
               IN Observe(w, IF Alone(w) THEN [h EXCEPT !.persons = persons, !.pdi = pdi]
                              ELSE h)

StartEvent(w, e) ==
    StartEventUpTo(w, e, IF Alone(w) THEN MaxSeqEvents ELSE MaxEvents)

\* ------------------------------------------------------------------ alias
\* const oldPerson = await this.db.fetchPerson(teamId, previousDistinctId)
AliasFetchOld(w) ==
    /\ pc[w] = "alias_fetch_old"
    /\ oldPerson' = [oldPerson EXCEPT ![w] = fetchPerson(persons, pdi, ev[w].team_id, ev[w].alias)]
    /\ pc' = [pc EXCEPT ![w] = "alias_fetch_new"]
    /\ UNCHANGED <<dbVars, tx, ev, newPerson, personFound, incremented, retryIfFailed, failedAttempts,
                   idError, outcome, result, nEvents, sink, elementgroups, sentry>>
    /\ Observe(w, hist[w])

\* alias without its two one-person cases
AliasCase_CreateUnlessBoth(old, new) ==
    IF old = NoPerson \/ new = NoPerson THEN "alias_create"
    ELSE IF old.id # new.id THEN "merge_update"
    ELSE "return"

\* the four cases of alias, on the two persons fetched
AliasCase(old, new) ==
    IF old # NoPerson /\ new = NoPerson THEN "alias_add_new"
    ELSE IF old = NoPerson /\ new # NoPerson THEN "alias_add_prev"
    ELSE IF old = NoPerson /\ new = NoPerson THEN "alias_create"
    ELSE IF old.id # new.id THEN "merge_update"
    ELSE "return"

\* const newPerson = await this.db.fetchPerson(teamId, distinctId)
AliasFetchNew(w) ==
    /\ pc[w] = "alias_fetch_new"
    /\ LET new == fetchPerson(persons, pdi, ev[w].team_id, ev[w].distinct_id)
           to == AliasCase(oldPerson[w], new)
       IN /\ newPerson' = [newPerson EXCEPT ![w] = new]
          /\ pc' = [pc EXCEPT ![w] = IF to = "return" THEN AfterAliasPc(ev[w]) ELSE to]
    /\ UNCHANGED <<dbVars, tx, ev, oldPerson, personFound, incremented, retryIfFailed, failedAttempts,
                   idError, outcome, result, nEvents, sink, elementgroups, sentry>>
    /\ Observe(w, hist[w])

\* a catch block that only reports
AliasCatch_NoRestart(w) ==
    /\ sentry' = [sentry EXCEPT ![w] = @ + 1]
    /\ pc' = [pc EXCEPT ![w] = AfterAliasPc(ev[w])]
    /\ UNCHANGED <<retryIfFailed, failedAttempts>>
    /\ Observe(w, hist[w])

\* the catch block of the three non-merge cases: report, and restart alias
\* once with retryIfFailed = false (and totalMergeAttempts at its default, 0)
AliasCatch(w) ==
    /\ sentry' = [sentry EXCEPT ![w] = @ + 1]
    /\ IF retryIfFailed[w]
       THEN /\ retryIfFailed' = [retryIfFailed EXCEPT ![w] = FALSE]
            /\ failedAttempts' = [failedAttempts EXCEPT ![w] = 0]
            /\ pc' = [pc EXCEPT ![w] = "alias_fetch_old"]
            /\ Observe(w, [hist[w] EXCEPT !.restarts = @ + 1])
       ELSE /\ pc' = [pc EXCEPT ![w] = AfterAliasPc(ev[w])]
            /\ UNCHANGED <<retryIfFailed, failedAttempts>>
            /\ Observe(w, hist[w])

AliasReturn(w) ==
    /\ pc' = [pc EXCEPT ![w] = AfterAliasPc(ev[w])]
    /\ UNCHANGED <<retryIfFailed, failedAttempts, sentry>>
    /\ Observe(w, hist[w])

\* an INSERT of (team, d) waits while another transaction's uncommitted
\* delete holds a row of that key
InsertWaits(w, team, d) ==
    \E r \in LockedRows(w) : r.team_id = team /\ r.distinct_id = d

\* oldPerson && !newPerson: await this.db.addDistinctId(oldPerson, distinctId)
AliasAddNew(w) ==
    /\ pc[w] = "alias_add_new"
    /\ ~InsertWaits(w, oldPerson[w].team_id, ev[w].distinct_id)
    /\ UNCHANGED <<persons, nextPersonId, cohortpeople, pool, pg, tx, ev, oldPerson, newPerson,
                   personFound, incremented, idError, outcome, result, nEvents, sink, elementgroups>>
    /\ LET r == addDistinctIdPooled(persons, pdi, nextPdiId, oldPerson[w], ev[w].distinct_id)
       IN /\ pdi' = r.pdi
          /\ kafkaProducer' = queueMessages(kafkaProducer, r.messages)
          /\ nextPdiId' = r.nid
          /\ IF r.ok THEN AliasReturn(w) ELSE AliasCatch(w)

\* !oldPerson && newPerson: await this.db.addDistinctId(newPerson, previousDistinctId)
AliasAddPrev(w) ==
    /\ pc[w] = "alias_add_prev"
    /\ ~InsertWaits(w, newPerson[w].team_id, ev[w].alias)
    /\ UNCHANGED <<persons, nextPersonId, cohortpeople, pool, pg, tx, ev, oldPerson, newPerson,
                   personFound, incremented, idError, outcome, result, nEvents, sink, elementgroups>>
    /\ LET r == addDistinctIdPooled(persons, pdi, nextPdiId, newPerson[w], ev[w].alias)
       IN /\ pdi' = r.pdi
          /\ kafkaProducer' = queueMessages(kafkaProducer, r.messages)
          /\ nextPdiId' = r.nid
          /\ IF r.ok THEN AliasReturn(w) ELSE AliasCatch(w)

\* !oldPerson && !newPerson: createPerson(DateTime.utc(), {}, teamId, null,
\* false, uuid, [distinctId, previousDistinctId])
AliasCreate(w, now) ==
    /\ pc[w] = "alias_create"
    /\ ~InsertWaits(w, ev[w].team_id, ev[w].distinct_id)
    /\ ~InsertWaits(w, ev[w].team_id, ev[w].alias)
    /\ UNCHANGED <<cohortpeople, pool, pg, tx, ev, oldPerson, newPerson, personFound, incremented, idError,
                   outcome, result, nEvents, sink, elementgroups>>
    /\ LET r == createPerson(persons, pdi, nextPersonId, nextPdiId, now, EmptyProps,
                             ev[w].team_id, FALSE, <<ev[w].distinct_id, ev[w].alias>>)
       IN /\ persons' = r.persons
          /\ pdi' = r.pdi
          /\ kafkaProducer' = queueMessages(kafkaProducer, r.messages)
          /\ nextPersonId' = r.pid
          /\ nextPdiId' = r.nid
          /\ IF r.ok THEN AliasReturn(w) ELSE AliasCatch(w)

\* ------------------------------------------------------------ mergePeople
\* an error of handleIdentifyOrAlias that ends processEvent
IdentityThrows_EndsEvent(w, error, reports) ==
    /\ idError' = [idError EXCEPT ![w] = error]
    /\ sentry' = [sentry EXCEPT ![w] = @ + reports + 1]
    /\ pc' = [pc EXCEPT ![w] = "idle"]

\* an error leaves handleIdentifyOrAlias: processEvent catches and reports it
\* and goes on to capture
IdentityThrows(w, error, reports) ==
    /\ idError' = [idError EXCEPT ![w] = error]
    /\ sentry' = [sentry EXCEPT ![w] = @ + reports + 1]
    /\ pc' = [pc EXCEPT ![w] = "cap_isnew"]

\* the lines of mergePeople up to its first query: merge the properties,
\* keep the oldest created_at, and updatePerson(mergeInto, ...)
MergeUpdate(w) ==
    /\ pc[w] = "merge_update"
    /\ LET mergeInto == newPerson[w]
           otherPerson == oldPerson[w]
           properties == Spread(otherPerson.properties, mergeInto.properties)
           firstSeen == IF otherPerson.created_at < mergeInto.created_at
                        THEN otherPerson.created_at ELSE mergeInto.created_at
       IN /\ newPerson' = [newPerson EXCEPT ![w].properties = properties]
          /\ persons' = updatePerson(persons, mergeInto,
                                     [created_at |-> firstSeen, properties |-> properties])
          /\ kafkaProducer' = queueMessages(kafkaProducer,
                 updatePersonMessages(mergeInto, [created_at |-> firstSeen,
                                                  properties |-> properties]))
          /\ pc' = [pc EXCEPT ![w] = "merge_cohort"]
          /\ UNCHANGED <<pdi, nextPersonId, nextPdiId, cohortpeople, pool, pg, tx, ev, oldPerson,
                         personFound, incremented, retryIfFailed, failedAttempts, idError, outcome, result,
                         nEvents, sink, elementgroups, sentry>>
          /\ Observe(w, [hist[w] EXCEPT !.merged = TRUE, !.onOther = {},
                                        !.other = otherPerson, !.into = mergeInto])

\* a mergePeople that goes from the cohorts to deletePerson, without the loop's
\* moveDistinctIds
MergeCohort_SkipsMove(w) ==
    /\ pc[w] = "merge_cohort"
    /\ cohortpeople' = {IF c = oldPerson[w].id THEN newPerson[w].id ELSE c : c \in cohortpeople}
    /\ pc' = [pc EXCEPT ![w] = "merge_delete_rows"]
    /\ UNCHANGED <<persons, pdi, nextPersonId, nextPdiId, kafkaProducer, pool, pg, tx, ev,
                   localVars, idError, outcome, result, nEvents, sink, elementgroups, sentry>>
    /\ Observe(w, hist[w])

\* UPDATE posthog_cohortpeople SET person_id = mergeInto.id WHERE person_id = otherPerson.id
MergeCohort(w) ==
    /\ pc[w] = "merge_cohort"
    /\ cohortpeople' = {IF c = oldPerson[w].id THEN newPerson[w].id ELSE c : c \in cohortpeople}
    /\ pc' = [pc EXCEPT ![w] = "merge_move"]
    /\ UNCHANGED <<persons, pdi, nextPersonId, nextPdiId, kafkaProducer, pool, pg, tx, ev,
                   localVars, idError, outcome, result, nEvents, sink, elementgroups, sentry>>
    /\ Observe(w, hist[w])

\* a mergePeople that restarts alias without its count of failed attempts
MergeMove_CounterDropped(w) ==
    /\ pc[w] = "merge_move"
    /\ deletePersonRows(LockedRows(w), oldPerson[w]) = {}
    /\ UNCHANGED <<persons, nextPersonId, nextPdiId, cohortpeople, pool, pg, tx, ev, oldPerson,
                   newPerson, personFound, incremented, outcome, result, nEvents, sink, elementgroups>>
    /\ LET r == moveDistinctIds(persons, pdi, oldPerson[w], newPerson[w])
           failed == failedAttempts[w] + 1
       IN /\ pdi' = r.pdi
          /\ kafkaProducer' = queueMessages(kafkaProducer, r.messages)
          /\ IF r.ok
             THEN /\ pc' = [pc EXCEPT ![w] = "merge_delete_rows"]
                  /\ UNCHANGED <<failedAttempts, retryIfFailed, idError, sentry>>
                  /\ Observe(w, hist[w])
             ELSE /\ failedAttempts' = [failedAttempts EXCEPT ![w] =
                           IF failed < MAX_FAILED_PERSON_MERGE_ATTEMPTS THEN 0 ELSE failed]
                  /\ IF failed < MAX_FAILED_PERSON_MERGE_ATTEMPTS
                     THEN \* shouldRetryAliasOperation: alias(.., false)
                          /\ retryIfFailed' = [retryIfFailed EXCEPT ![w] = FALSE]
                          /\ sentry' = [sentry EXCEPT ![w] = @ + 1]
                          /\ pc' = [pc EXCEPT ![w] = "alias_fetch_old"]
                          /\ UNCHANGED idError
                          /\ Observe(w, [hist[w] EXCEPT !.mergeRestarts = @ + 1,
                                                        !.moveFails = @ + 1])
                     ELSE /\ IdentityThrows(w, "RaceConditionError", 1)
                          /\ UNCHANGED retryIfFailed
                          /\ Observe(w, [hist[w] EXCEPT !.moveFails = @ + 1])

\* the first try of the loop: await this.db.moveDistinctIds(otherPerson, mergeInto)
MergeMove(w) ==
    /\ pc[w] = "merge_move"
    /\ deletePersonRows(LockedRows(w), oldPerson[w]) = {}
    /\ UNCHANGED <<persons, nextPersonId, nextPdiId, cohortpeople, pool, pg, tx, ev, oldPerson,
                   newPerson, personFound, incremented, outcome, result, nEvents, sink, elementgroups>>
    /\ LET r == moveDistinctIds(persons, pdi, oldPerson[w], newPerson[w])
           failed == failedAttempts[w] + 1
       IN /\ pdi' = r.pdi
          /\ kafkaProducer' = queueMessages(kafkaProducer, r.messages)
          /\ IF r.ok
             THEN /\ pc' = [pc EXCEPT ![w] = "merge_delete_rows"]
                  /\ UNCHANGED <<failedAttempts, retryIfFailed, idError, sentry>>
                  /\ Observe(w, hist[w])
             ELSE /\ failedAttempts' = [failedAttempts EXCEPT ![w] = failed]
                  /\ IF failed < MAX_FAILED_PERSON_MERGE_ATTEMPTS
                     THEN \* shouldRetryAliasOperation: alias(.., false, failedAttempts)
                          /\ retryIfFailed' = [retryIfFailed EXCEPT ![w] = FALSE]
                          /\ sentry' = [sentry EXCEPT ![w] = @ + 1]
                          /\ pc' = [pc EXCEPT ![w] = "alias_fetch_old"]
                          /\ UNCHANGED idError
                          /\ Observe(w, [hist[w] EXCEPT !.mergeRestarts = @ + 1,
                                                        !.moveFails = @ + 1])
                     ELSE /\ IdentityThrows(w, "RaceConditionError", 1)
                          /\ UNCHANGED retryIfFailed
                          /\ Observe(w, [hist[w] EXCEPT !.moveFails = @ + 1])

\* deletePerson: BEGIN and DELETE FROM posthog_persondistinctid
MergeDeleteRows(w) ==
    /\ pc[w] = "merge_delete_rows"
    /\ deletePersonRows(LockedRows(w), oldPerson[w]) = {}
    /\ tx' = [tx EXCEPT ![w] = [open |-> TRUE, person_id |-> oldPerson[w].id,
                                rows |-> deletePersonRows(pdi, oldPerson[w]),
                                group |-> NoGroup]]
    /\ pc' = [pc EXCEPT ![w] = "merge_delete_commit"]
    /\ UNCHANGED <<dbVars, ev, localVars, idError, outcome, result, nEvents, sink, elementgroups, sentry>>
    /\ Observe(w, hist[w])

\* a deletePerson catch that retries whatever the count
MergeDeleteCommit_NoBudget(w) ==
    /\ pc[w] = "merge_delete_commit"
    /\ LET r == deletePersonCommit(persons, pdi, tx[w])
           failed == failedAttempts[w] + 1
       IN /\ persons' = r.persons
          /\ pdi' = r.pdi
          /\ UNCHANGED kafkaProducer
          /\ tx' = [tx EXCEPT ![w] = NoTx]
          /\ IF r.ok
             THEN /\ pc' = [pc EXCEPT ![w] = AfterAliasPc(ev[w])]
                  /\ UNCHANGED <<failedAttempts, idError, sentry>>
             ELSE /\ failedAttempts' = [failedAttempts EXCEPT ![w] = failed]
                  /\ IF FALSE
                     THEN IdentityThrows(w, "DatabaseError", 0)
                     ELSE /\ pc' = [pc EXCEPT ![w] = "merge_move"]
                          /\ UNCHANGED <<idError, sentry>>
          /\ UNCHANGED <<nextPersonId, nextPdiId, cohortpeople, pool, pg, ev, oldPerson, newPerson,
                         personFound, incremented, retryIfFailed, outcome, result, nEvents, sink, elementgroups>>
          /\ Observe(w, IF r.ok THEN hist[w]
                         ELSE [hist[w] EXCEPT !.deleteFails = @ + 1])

\* deletePerson: DELETE FROM posthog_person and COMMIT, or ROLLBACK and the
\* second catch of the loop
MergeDeleteCommit(w) ==
    /\ pc[w] = "merge_delete_commit"
    /\ LET r == deletePersonCommit(persons, pdi, tx[w])
           failed == failedAttempts[w] + 1
       IN /\ persons' = r.persons
          /\ pdi' = r.pdi
          /\ UNCHANGED kafkaProducer
          /\ tx' = [tx EXCEPT ![w] = NoTx]
          /\ IF r.ok
             THEN /\ pc' = [pc EXCEPT ![w] = AfterAliasPc(ev[w])]
                  /\ UNCHANGED <<failedAttempts, idError, sentry>>
             ELSE /\ failedAttempts' = [failedAttempts EXCEPT ![w] = failed]
                  /\ IF failed = MAX_FAILED_PERSON_MERGE_ATTEMPTS
                     THEN IdentityThrows(w, "DatabaseError", 0)
                     ELSE /\ pc' = [pc EXCEPT ![w] = "merge_move"]
                          /\ UNCHANGED <<idError, sentry>>
          /\ UNCHANGED <<nextPersonId, nextPdiId, cohortpeople, pool, pg, ev, oldPerson, newPerson,
                         personFound, incremented, retryIfFailed, outcome, result, nEvents, sink, elementgroups>>
          /\ Observe(w, IF r.ok THEN hist[w]
                         ELSE [hist[w] EXCEPT !.deleteFails = @ + 1])

\* -------------------------------------------------------- setIsIdentified
\* let personFound = await this.db.fetchPerson(teamId, distinctId)
SetIsIdentifiedPc(found) ==
    IF found = NoPerson \/ found.is_identified THEN "cap_isnew" ELSE "sii_update"

SiiFetch(w) ==
    /\ pc[w] = "sii_fetch"
    /\ LET found == fetchPerson(persons, pdi, ev[w].team_id, ev[w].distinct_id)
       IN /\ personFound' = [personFound EXCEPT ![w] = found]
          /\ UNCHANGED incremented
          /\ pc' = [pc EXCEPT ![w] = IF found = NoPerson THEN "sii_create"
                                     ELSE SetIsIdentifiedPc(found)]
    /\ UNCHANGED <<dbVars, tx, ev, oldPerson, newPerson, retryIfFailed, failedAttempts,
                   idError, outcome, result, nEvents, sink, elementgroups, sentry>>
    /\ Observe(w, hist[w])

\* createPerson(DateTime.utc(), {}, teamId, null, true, uuid, [distinctId])
SiiCreate(w, now) ==
    /\ pc[w] = "sii_create"
    /\ ~InsertWaits(w, ev[w].team_id, ev[w].distinct_id)
    /\ LET r == createPerson(persons, pdi, nextPersonId, nextPdiId, now, EmptyProps,
                             ev[w].team_id, TRUE, <<ev[w].distinct_id>>)
       IN /\ persons' = r.persons
          /\ pdi' = r.pdi
          /\ kafkaProducer' = queueMessages(kafkaProducer, r.messages)
          /\ nextPersonId' = r.pid
          /\ nextPdiId' = r.nid
          /\ personFound' = [personFound EXCEPT ![w] = r.person]
          /\ UNCHANGED incremented
          /\ pc' = [pc EXCEPT ![w] = IF r.ok THEN SetIsIdentifiedPc(r.person)
                                     ELSE "sii_refetch"]
          /\ UNCHANGED <<cohortpeople, pool, pg, tx, ev, oldPerson, newPerson, retryIfFailed,
                         failedAttempts, idError, outcome, result, nEvents, sink, elementgroups, sentry>>
          /\ Observe(w, [hist[w] EXCEPT !.caught = ~r.ok])

\* the catch: personFound = await this.db.fetchPerson(teamId, distinctId)
SiiRefetch(w) ==
    /\ pc[w] = "sii_refetch"
    /\ LET found == fetchPerson(persons, pdi, ev[w].team_id, ev[w].distinct_id)
       IN /\ personFound' = [personFound EXCEPT ![w] = found]
          /\ UNCHANGED incremented
          /\ pc' = [pc EXCEPT ![w] = SetIsIdentifiedPc(found)]
    /\ UNCHANGED <<dbVars, tx, ev, oldPerson, newPerson, retryIfFailed, failedAttempts,
                   idError, outcome, result, nEvents, sink, elementgroups, sentry>>
    /\ Observe(w, hist[w])

\* await this.db.updatePerson(personFound, { is_identified: isIdentified })
SiiUpdate(w) ==
    /\ pc[w] = "sii_update"
    /\ persons' = updatePerson(persons, personFound[w], [is_identified |-> TRUE])
    /\ kafkaProducer' = queueMessages(kafkaProducer,
           updatePersonMessages(personFound[w], [is_identified |-> TRUE]))
    /\ pc' = [pc EXCEPT ![w] = "cap_isnew"]
    /\ UNCHANGED <<pdi, nextPersonId, nextPdiId, cohortpeople, pool, pg, tx, ev, localVars,
                   idError, outcome, result, nEvents, sink, elementgroups, sentry>>
    /\ Observe(w, hist[w])

\* -------------------------------- capture / createSessionRecordingEvent
\* TeamManager.fetchTeam is not in the source: the team of that id, if any.
\* MissingTeam is the id of no team.
MissingTeam == 3
fetchTeam(teamId) == teamId \in Teams

\* team.anonymize_ips: the team of id AnonymousTeam has the flag set
AnonymousTeam == 2
anonymize_ips(teamId) == teamId = AnonymousTeam

\* the $ip written whatever the team's flag says
capturedIp_IgnoringTeam(e) ==
    IF e.props_ip # None THEN e.props_ip
    ELSE IF e.ip \notin {None, ""} THEN e.ip
    ELSE None

\* properties['$ip'] when capture emits the event: if (ip &&
\* !team.anonymize_ips && !('$ip' in properties)) properties['$ip'] = ip.
\* The null ip and the empty string are falsy.
capturedIp(e) ==
    IF e.props_ip # None THEN e.props_ip
    ELSE IF e.ip \notin {None, ""} /\ ~anonymize_ips(e.team_id) THEN e.ip
    ELSE None

\* capture's elementsList: extractElements(properties['$elements']) if there
\* are any; createSessionRecordingEvent has none
elementsList(e) == IF e.event = "$snapshot" THEN <<>> ELSE e.elements

\* processEvent is left: its locals are gone
ProcessEventEnds(w, how) ==
    /\ outcome' = [outcome EXCEPT ![w] = how]
    /\ pc' = [pc EXCEPT ![w] = "idle"]
    /\ oldPerson' = [oldPerson EXCEPT ![w] = NoPerson]
    /\ newPerson' = [newPerson EXCEPT ![w] = NoPerson]
    /\ personFound' = [personFound EXCEPT ![w] = NoPerson]
    /\ incremented' = [incremented EXCEPT ![w] = NoQueryResult]
    /\ retryIfFailed' = [retryIfFailed EXCEPT ![w] = TRUE]
    /\ failedAttempts' = [failedAttempts EXCEPT ![w] = 0]

\* an error of capture that processEvent catches and answers with a result
CaptureThrows_Swallowed(w, error) == ProcessEventEnds(w, "returned") /\ UNCHANGED result

\* an error leaves capture or createSessionRecordingEvent: the finally blocks
\* of processEvent clear the watchdogs and the error leaves processEvent
CaptureThrows(w, error) == ProcessEventEnds(w, error) /\ UNCHANGED result

\* a createSessionRecordingEvent that updates the person's properties too
AfterPersonPc_AnyEvent(e) == IF e.props_given THEN "upp_fetch" ELSE "cap_emit"

\* where capture goes after createPersonIfDistinctIdIsNew: to
\* updatePersonProperties if properties hold $set or $set_once
AfterPersonPc(e) ==
    IF e.event # "$snapshot" /\ e.props_given THEN "upp_fetch" ELSE "cap_emit"

\* capture: extractElements, fetchTeam, and throw if there is no team;
\* updateEventNamesAndProperties (no event name of the model is in
\* EVENTS_WITHOUT_EVENT_DEFINITION); then, as in createSessionRecordingEvent,
\* createPersonIfDistinctIdIsNew: the isNewPerson query
CapIsNew(w) ==
    /\ pc[w] = "cap_isnew"
    /\ UNCHANGED <<dbVars, tx, ev, idError, nEvents, sink, elementgroups, sentry>>
    /\ IF ev[w].event # "$snapshot" /\ ~fetchTeam(ev[w].team_id)
       THEN CaptureThrows(w, "No team found")
       ELSE /\ pc' = [pc EXCEPT ![w] = IF isNewPerson(pdi, ev[w].team_id, ev[w].distinct_id)
                                       THEN "cap_create" ELSE AfterPersonPc(ev[w])]
            /\ UNCHANGED <<localVars, outcome, result>>
    /\ Observe(w, IF ev[w].event = "$snapshot" THEN hist[w]
                  ELSE [hist[w] EXCEPT !.extracted = ev[w].elements # <<>>,
                                       !.definitions = IF pc'[w] = "idle" THEN @ ELSE @ + 1])

\* createPerson(sentAt, {}, teamId, null, false, personUuid, [distinctId]),
\* its error caught and reported; capture passes sentAt || DateTime.utc(),
\* createSessionRecordingEvent DateTime.utc()
CapCreate(w, utc) ==
    /\ pc[w] = "cap_create"
    /\ ~InsertWaits(w, ev[w].team_id, ev[w].distinct_id)
    /\ LET sentAt == IF ev[w].event # "$snapshot" /\ ev[w].sent_at # NoTime
                     THEN ev[w].sent_at ELSE utc
           r == createPerson(persons, pdi, nextPersonId, nextPdiId, sentAt, EmptyProps,
                             ev[w].team_id, FALSE, <<ev[w].distinct_id>>)
       IN /\ persons' = r.persons
          /\ pdi' = r.pdi
          /\ kafkaProducer' = queueMessages(kafkaProducer, r.messages)
          /\ nextPersonId' = r.pid
          /\ nextPdiId' = r.nid
          /\ sentry' = [sentry EXCEPT ![w] = IF r.ok THEN @ ELSE @ + 1]
    /\ pc' = [pc EXCEPT ![w] = AfterPersonPc(ev[w])]
    /\ UNCHANGED <<cohortpeople, pool, pg, tx, ev, localVars, idError, outcome, result, nEvents, sink, elementgroups>>
    /\ Observe(w, hist[w])

\* --------------------------------------------------- updatePersonProperties
\* the properties with $set_once and $set applied, the values of $set first
updatedProperties_SetOnceWins(found, e) ==
    Spread(Spread(e.set, found.properties), e.set_once)

\* { ...propertiesOnce, ...personFound.properties, ...properties }
updatedProperties(found, e) ==
    Spread(Spread(e.set_once, found.properties), e.set)

\* DB.incrementPersonProperties is not in the source: the atomic increment of
\* the keys of increments in the row of person, which returns the row's
\* properties (no row if the person is gone)
incrementPersonProperties(P, person, increments) ==
    LET inc(p) == [p EXCEPT !.properties =
                      [k \in Keys |-> IF increments[k] # Absent THEN @[k] + increments[k]
                                      ELSE @[k]]]
        hit == {p \in P : p.id = person.id}
    IN [persons |-> {IF p \in hit THEN inc(p) ELSE p : p \in P},
        rows |-> IF hit = {} THEN <<>> ELSE <<inc(CHOOSE p \in hit : TRUE)>>]

\* the test of line 271 without the log producer
MayReturnFound_IgnoringProducer(found, e, producer) ==
    found.properties = updatedProperties(found, e)

\* arePersonsEqualExcludingIncrement && (!this.db.kafkaProducer ||
\* !areTherePropsToIncrement)
MayReturnFound(found, e, producer) ==
    /\ found.properties = updatedProperties(found, e)
    /\ ~producer.configured \/ e.increment = EmptyProps

\* with props to increment: incrementPersonProperties first; else return
\* personFound if it may, else updatePerson
UpdatePropertiesPc(found, e) ==
    IF e.increment # EmptyProps THEN "upp_increment"
    ELSE IF found.properties = updatedProperties(found, e) THEN "cap_emit" ELSE "upp_update"

\* let personFound = await this.db.fetchPerson(teamId, distinctId)
UppFetch(w) ==
    /\ pc[w] = "upp_fetch"
    /\ LET found == fetchPerson(persons, pdi, ev[w].team_id, ev[w].distinct_id)
       IN /\ personFound' = [personFound EXCEPT ![w] = found]
          /\ UNCHANGED incremented
          /\ pc' = [pc EXCEPT ![w] = IF found = NoPerson THEN "upp_create"
                                     ELSE UpdatePropertiesPc(found, ev[w])]
    /\ UNCHANGED <<dbVars, tx, ev, oldPerson, newPerson, retryIfFailed, failedAttempts,
                   idError, outcome, result, nEvents, sink, elementgroups, sentry>>
    /\ Observe(w, hist[w])

\* createPerson(DateTime.utc(), properties, teamId, null, false, uuid, [distinctId])
UppCreate(w, utc) ==
    /\ pc[w] = "upp_create"
    /\ ~InsertWaits(w, ev[w].team_id, ev[w].distinct_id)
    /\ LET r == createPerson(persons, pdi, nextPersonId, nextPdiId, utc, ev[w].set,
                             ev[w].team_id, FALSE, <<ev[w].distinct_id>>)
       IN /\ persons' = r.persons
          /\ pdi' = r.pdi
          /\ kafkaProducer' = queueMessages(kafkaProducer, r.messages)
          /\ nextPersonId' = r.pid
          /\ nextPdiId' = r.nid
          /\ personFound' = [personFound EXCEPT ![w] = r.person]
          /\ UNCHANGED incremented
          /\ pc' = [pc EXCEPT ![w] = IF r.ok THEN UpdatePropertiesPc(r.person, ev[w])
                                     ELSE "upp_refetch"]
    /\ UNCHANGED <<cohortpeople, pool, pg, tx, ev, oldPerson, newPerson, retryIfFailed,
                   failedAttempts, idError, outcome, result, nEvents, sink, elementgroups, sentry>>
    /\ Observe(w, hist[w])

\* the catch: personFound = await this.db.fetchPerson(teamId, distinctId), and
\* throw if there is still no person
UppRefetch(w) ==
    /\ pc[w] = "upp_refetch"
    /\ UNCHANGED <<dbVars, tx, ev, idError, nEvents, sink, elementgroups, sentry>>
    /\ LET found == fetchPerson(persons, pdi, ev[w].team_id, ev[w].distinct_id)
       IN IF found = NoPerson
          THEN CaptureThrows(w, "Could not find person")
          ELSE /\ personFound' = [personFound EXCEPT ![w] = found]
               /\ UNCHANGED incremented
               /\ pc' = [pc EXCEPT ![w] = UpdatePropertiesPc(found, ev[w])]
               /\ UNCHANGED <<oldPerson, newPerson, retryIfFailed, failedAttempts, outcome, result>>
    /\ Observe(w, hist[w])

\* incrementedPropertiesQueryResult = await
\* this.db.incrementPersonProperties(personFound, incrementProperties)
UppIncrement(w) ==
    /\ pc[w] = "upp_increment"
    /\ LET r == incrementPersonProperties(persons, personFound[w], ev[w].increment)
       IN /\ persons' = r.persons
          /\ incremented' = [incremented EXCEPT ![w] = QueryResult(r.rows)]
    /\ pc' = [pc EXCEPT ![w] = IF MayReturnFound(personFound[w], ev[w], kafkaProducer)
                               THEN "cap_emit" ELSE "upp_update"]
    /\ UNCHANGED <<pdi, nextPersonId, nextPdiId, cohortpeople, pool, pg, kafkaProducer, tx, ev,
                   oldPerson, newPerson, personFound, retryIfFailed, failedAttempts,
                   idError, outcome, result, nEvents, sink, elementgroups, sentry>>
    /\ Observe(w, hist[w])

\* updatedProperties = { ...updatedProperties,
\* ...incrementedPropertiesQueryResult.rows[0].properties } if the query
\* returned a row
PropertiesToWrite(found, e, queryResult) ==
    IF queryResult.called /\ Len(queryResult.rows) > 0
    THEN Spread(updatedProperties(found, e), queryResult.rows[1].properties)
    ELSE updatedProperties(found, e)

\* return await this.db.updatePerson(personFound, { properties: updatedProperties })
UppUpdate(w) ==
    /\ pc[w] = "upp_update"
    /\ UNCHANGED <<pdi, nextPersonId, nextPdiId, cohortpeople, pool, pg, tx, ev, idError, nEvents,
                   sink, elementgroups, sentry>>
    /\ IF ev[w].fault = "updatePerson"
       THEN /\ CaptureThrows(w, "DatabaseError")
            /\ UNCHANGED <<persons, kafkaProducer>>
       ELSE LET update == [properties |-> PropertiesToWrite(personFound[w], ev[w],
                                                             incremented[w])]
            IN /\ persons' = updatePerson(persons, personFound[w], update)
               /\ kafkaProducer' = queueMessages(kafkaProducer,
                                       updatePersonMessages(personFound[w], update))
               /\ pc' = [pc EXCEPT ![w] = "cap_emit"]
               /\ UNCHANGED <<localVars, outcome, result>>
    /\ Observe(w, IF pc'[w] = "cap_emit" THEN [hist[w] EXCEPT !.updates = @ + 1]
                  ELSE hist[w])

\* ------------------------------ createEvent / createSessionRecordingEvent
\* hashElements is not in the source: a fingerprint of the ordered list
hashElements(cleanedElements) == [of |-> cleanedElements]
NoHash == [of |-> <<>>]

\* elements.map((element, index) => ({ ...element, order: index }))
cleanedElements(elements) ==
    [i \in 1..Len(elements) |-> [tag_name |-> elements[i], order |-> i - 1]]

ElementGroupRow(id, hash, teamId, elements) ==
    [id |-> id, hash |-> hash, team_id |-> teamId, elements |-> elements]

\* the unique index of posthog_elementgroup on (team_id, hash), taken as absent
GroupExists_Never(G, teamId, hash) == FALSE

\* the unique index of posthog_elementgroup on (team_id, hash)
GroupExists(G, teamId, hash) == \E g \in G : g.team_id = teamId /\ g.hash = hash

\* the transaction of createElementGroup without its rollback: the group row
\* stays when the INSERT of an element fails
createElementGroup_NoRollback(G, elements, teamId, fails) ==
    LET cleaned == cleanedElements(elements)
        hash == hashElements(cleaned)
    IN IF GroupExists(G, teamId, hash)
       THEN [groups |-> G, hash |-> hash, error |-> None]
       ELSE IF fails
       THEN [groups |-> G \cup {ElementGroupRow(Cardinality(G) + 1, hash, teamId, <<>>)}, hash |-> hash,
             error |-> "DatabaseError"]
       ELSE [groups |-> G \cup {ElementGroupRow(Cardinality(G) + 1, hash, teamId, cleaned)}, hash |-> hash,
             error |-> None]

\* DB.createElementGroup: in one transaction, INSERT INTO posthog_elementgroup
\* and, for each element, INSERT INTO posthog_element.  (team_id, hash) is
\* unique: the violation (23505) rolls the transaction back and is caught;
\* another error (fails: an INSERT of an element fails) rolls it back and is
\* thrown further.
createElementGroup(G, elements, teamId, fails) ==
    LET cleaned == cleanedElements(elements)
        hash == hashElements(cleaned)
    IN IF GroupExists(G, teamId, hash)
       THEN [groups |-> G, hash |-> hash, error |-> None]
       ELSE IF fails
       THEN [groups |-> G, hash |-> hash, error |-> "DatabaseError"]
       ELSE [groups |-> G \cup {ElementGroupRow(Cardinality(G) + 1, hash, teamId, cleaned)}, hash |-> hash,
             error |-> None]

\* castTimestampOrNow is not in the source: the timestamp in the format of
\* the sink
castTimestampOrNow(timestamp, format) ==
    [format |-> format, valid |-> timestamp.valid, at |-> timestamp.at]

TimestampFormat(producer) == IF producer.configured THEN "ClickHouse" ELSE "ISO"

\* an event payload stamped with now
EventPayload_StampedNow(w, producer) ==
    [uuid |-> hist[w].n, team_id |-> ev[w].team_id, distinct_id |-> ev[w].distinct_id,
     kind |-> IF ev[w].event = "$snapshot" THEN "session_recording" ELSE "event",
     timestamp |-> castTimestampOrNow(DateTimeAt(ev[w].now), TimestampFormat(producer)),
     ip |-> IF ev[w].event = "$snapshot" THEN None ELSE capturedIp(ev[w]),
     elements |-> elementsList(ev[w])]

\* eventPayload of createEvent, data of createSessionRecordingEvent (which
\* has no properties, so no $ip, and no elements)
EventPayload(w, producer) ==
    [uuid |-> hist[w].n, team_id |-> ev[w].team_id, distinct_id |-> ev[w].distinct_id,
     kind |-> IF ev[w].event = "$snapshot" THEN "session_recording" ELSE "event",
     timestamp |-> castTimestampOrNow(hist[w].ts, TimestampFormat(producer)),
     ip |-> IF ev[w].event = "$snapshot" THEN None ELSE capturedIp(ev[w]),
     elements |-> elementsList(ev[w])]

\* the row written to posthog_event or posthog_sessionrecordingevent
EventWritten(w) ==
    [uuid |-> hist[w].n, team_id |-> ev[w].team_id, distinct_id |-> ev[w].distinct_id,
     kind |-> IF ev[w].event = "$snapshot" THEN "session_recording" ELSE "event",
     timestamp |-> castTimestampOrNow(hist[w].ts, "ISO"),
     ip |-> IF ev[w].event = "$snapshot" THEN None ELSE capturedIp(ev[w]),
     elements |-> elementsList(ev[w]),
     elements_hash |-> IF elementsList(ev[w]) # <<>>
                       THEN hashElements(cleanedElements(elementsList(ev[w])))
                       ELSE NoHash]

\* the message of topic KAFKA_EVENTS or KAFKA_SESSION_RECORDING_EVENTS
EventMessage(payload) ==
    [topic |-> IF payload.kind = "event" THEN "events" ELSE "session_recording_events",
     id |-> payload.uuid, value |-> payload]

\* eventId when no row was inserted
NoId == 0

\* what processEvent returns: { event, eventId, elements } of capture, and
\* nothing for a $snapshot event
Result(w, producer, eventId) ==
    IF ev[w].event = "$snapshot" THEN undefined
    ELSE [defined |-> TRUE, event |-> EventPayload(w, producer), eventId |-> eventId,
          elements |-> elementsList(ev[w])]

\* a createEvent that writes to the table and to the log
WriteEvent_Both(w) ==
    /\ kafkaProducer' = queueMessages(kafkaProducer,
                                      <<EventMessage(EventPayload(w, kafkaProducer))>>)
    /\ sink' = sink \cup {EventWritten(w)}
    /\ result' = [result EXCEPT ![w] =
                    Result(w, kafkaProducer,
                           Cardinality({x \in sink' : x.kind = EventWritten(w).kind}))]

\* this.kafkaProducer.queueMessage of the event, or INSERT INTO posthog_event
\* (posthog_sessionrecordingevent) RETURNING *: the id of the row is the
\* next of the table's sequence, and no row of these tables is ever deleted
WriteEvent(w) ==
    IF kafkaProducer.configured
    THEN /\ kafkaProducer' = queueMessages(kafkaProducer,
                                           <<EventMessage(EventPayload(w, kafkaProducer))>>)
         /\ result' = [result EXCEPT ![w] = Result(w, kafkaProducer, NoId)]
         /\ UNCHANGED sink
    ELSE /\ sink' = sink \cup {EventWritten(w)}
         /\ result' = [result EXCEPT ![w] =
                         Result(w, kafkaProducer,
                                Cardinality({x \in sink' : x.kind = EventWritten(w).kind}))]
         /\ UNCHANGED kafkaProducer

\* createEvent, or the write of createSessionRecordingEvent.  With the log
\* producer, or with no elements, the event is written and processEvent
\* returns, or the write fails.  Else createElementGroup comes first.
CapEmit(w) ==
    /\ pc[w] = "cap_emit"
    /\ UNCHANGED <<persons, pdi, nextPersonId, nextPdiId, cohortpeople, pool, pg, tx, ev, idError,
                   nEvents, sentry>>
    /\ IF ~kafkaProducer.configured /\ elementsList(ev[w]) # <<>>
       THEN LET r == createElementGroup(elementgroups, elementsList(ev[w]), ev[w].team_id,
                                        ev[w].fault = "elements")
            IN /\ elementgroups' = r.groups
               /\ UNCHANGED <<sink, kafkaProducer>>
               /\ IF r.error # None
                  THEN CaptureThrows(w, r.error)
                  ELSE /\ pc' = [pc EXCEPT ![w] = "cap_insert"]
                       /\ UNCHANGED <<localVars, outcome, result>>
       ELSE /\ UNCHANGED elementgroups
            /\ IF ev[w].fault = "sink"
               THEN /\ CaptureThrows(w, "sink write failed")
                    /\ UNCHANGED <<sink, kafkaProducer>>
               ELSE /\ WriteEvent(w)
                    /\ ProcessEventEnds(w, "returned")
    /\ Observe(w, hist[w])

\* createEvent after createElementGroup: the INSERT INTO posthog_event
CapInsert(w) ==
    /\ pc[w] = "cap_insert"
    /\ UNCHANGED <<persons, pdi, nextPersonId, nextPdiId, cohortpeople, pool, pg, tx, ev, idError,
                   nEvents, sentry, elementgroups>>
    /\ IF ev[w].fault = "sink"
       THEN /\ CaptureThrows(w, "sink write failed")
            /\ UNCHANGED <<sink, kafkaProducer>>
       ELSE /\ WriteEvent(w)
            /\ ProcessEventEnds(w, "returned")
    /\ Observe(w, hist[w])

\* ------------------------------------------- the Person Store called directly
\* A client of the store holds Person objects it fetched or created earlier
\* (oldPerson, newPerson), which may be stale by the time it uses them.
StoreCall(w) ==
    /\ pc[w] = "store"
    /\ nEvents < MaxCalls
    /\ nEvents' = nEvents + 1

StoreFrameWith(w, h) ==
    /\ UNCHANGED <<cohortpeople, pool, pg, ev, personFound, incremented, retryIfFailed, failedAttempts,
                   idError, outcome, result, sink, elementgroups, sentry>>
    /\ Observe(w, h)

StoreFrame(w) == StoreFrameWith(w, hist[w])

StoreIds == {"a", "b"}
DistinctIdLists ==
    {<<>>} \cup {<<d>> : d \in StoreIds} \cup {<<d, e>> : d, e \in StoreIds}

DbFetchPerson(w, teamId, distinctId, asOld) ==
    /\ StoreCall(w)
    /\ LET found == fetchPerson(persons, pdi, teamId, distinctId)
       IN IF asOld
          THEN oldPerson' = [oldPerson EXCEPT ![w] = found] /\ UNCHANGED newPerson
          ELSE newPerson' = [newPerson EXCEPT ![w] = found] /\ UNCHANGED oldPerson
    /\ UNCHANGED <<persons, pdi, nextPersonId, nextPdiId, kafkaProducer, tx, pc>>
    /\ StoreFrame(w)

DbCreatePerson(w, teamId, distinctIds) ==
    /\ StoreCall(w)
    /\ \A i \in 1..Len(distinctIds) : ~InsertWaits(w, teamId, distinctIds[i])
    /\ LET r == createPerson(persons, pdi, nextPersonId, nextPdiId, 1, EmptyProps,
                             teamId, FALSE, distinctIds)
       IN /\ persons' = r.persons
          /\ pdi' = r.pdi
          /\ kafkaProducer' = queueMessages(kafkaProducer, r.messages)
          /\ nextPersonId' = r.pid
          /\ nextPdiId' = r.nid
          /\ oldPerson' = [oldPerson EXCEPT ![w] = IF r.ok THEN r.person ELSE @]
          /\ UNCHANGED <<newPerson, tx, pc>>
          \* a client with no peer notes the call and whether it threw
          /\ StoreFrameWith(w, IF Alone(w)
                                THEN [hist[w] EXCEPT !.n = nEvents + 1, !.caught = ~r.ok]
                                ELSE hist[w])

DbAddDistinctId(w, distinctId) ==
    /\ StoreCall(w)
    /\ oldPerson[w] # NoPerson
    /\ ~InsertWaits(w, oldPerson[w].team_id, distinctId)
    /\ LET r == addDistinctIdPooled(persons, pdi, nextPdiId, oldPerson[w], distinctId)
       IN /\ pdi' = r.pdi
          /\ nextPdiId' = r.nid
          /\ kafkaProducer' = queueMessages(kafkaProducer, r.messages)
          /\ UNCHANGED <<persons, nextPersonId, oldPerson, newPerson, tx, pc>>
          \* a client with no peer notes the call and the error it threw
          /\ StoreFrameWith(w, IF Alone(w)
                                THEN [hist[w] EXCEPT !.add = [n |-> nEvents + 1,
                                                              distinct_id |-> distinctId,
                                                              error |-> r.error]]
                                ELSE hist[w])

DbMoveDistinctId(w, personDistinctId) ==
    /\ StoreCall(w)
    /\ newPerson[w] # NoPerson
    /\ personDistinctId \notin LockedRows(w)
    /\ LET r == moveDistinctId(persons, pdi, personDistinctId, newPerson[w])
       IN /\ pdi' = r.pdi
          /\ kafkaProducer' = queueMessages(kafkaProducer, r.messages)
    /\ UNCHANGED <<persons, nextPersonId, nextPdiId, oldPerson, newPerson, tx, pc>>
    /\ StoreFrame(w)

DbMoveDistinctIds(w) ==
    /\ StoreCall(w)
    /\ oldPerson[w] # NoPerson /\ newPerson[w] # NoPerson
    /\ deletePersonRows(LockedRows(w), oldPerson[w]) = {}
    /\ LET r == moveDistinctIds(persons, pdi, oldPerson[w], newPerson[w])
       IN /\ pdi' = r.pdi
          /\ kafkaProducer' = queueMessages(kafkaProducer, r.messages)
    /\ UNCHANGED <<persons, nextPersonId, nextPdiId, oldPerson, newPerson, tx, pc>>
    /\ StoreFrame(w)

\* the updates of a person that a client of the store issues
PersonUpdates == {[is_identified |-> TRUE], [properties |-> [k \in Keys |-> 1]]}

DbUpdatePerson(w, update) ==
    /\ StoreCall(w)
    /\ oldPerson[w] # NoPerson
    /\ persons' = updatePerson(persons, oldPerson[w], update)
    /\ kafkaProducer' = queueMessages(kafkaProducer, updatePersonMessages(oldPerson[w], update))
    /\ UNCHANGED <<pdi, nextPersonId, nextPdiId, oldPerson, newPerson, tx, pc>>
    /\ StoreFrame(w)

DbDeletePersonRows(w) ==
    /\ StoreCall(w)
    /\ oldPerson[w] # NoPerson
    /\ deletePersonRows(LockedRows(w), oldPerson[w]) = {}
    /\ tx' = [tx EXCEPT ![w] = [open |-> TRUE, person_id |-> oldPerson[w].id,
                                rows |-> deletePersonRows(pdi, oldPerson[w]),
                                group |-> NoGroup]]
    /\ pc' = [pc EXCEPT ![w] = "store_delete_commit"]
    /\ UNCHANGED <<persons, pdi, nextPersonId, nextPdiId, kafkaProducer, oldPerson,
                   newPerson>>
    /\ StoreFrame(w)

DbDeletePersonCommit(w) ==
    /\ pc[w] = "store_delete_commit"
    /\ LET r == deletePersonCommit(persons, pdi, tx[w])
       IN persons' = r.persons /\ pdi' = r.pdi
    /\ UNCHANGED kafkaProducer
    /\ tx' = [tx EXCEPT ![w] = NoTx]
    /\ pc' = [pc EXCEPT ![w] = "store"]
    /\ UNCHANGED <<nextPersonId, nextPdiId, oldPerson, newPerson, nEvents>>
    /\ StoreFrame(w)

\* ---------------------------------------- createElementGroup, query by query
\* DB.createElementGroup called directly, by clients that run concurrently:
\* cleanedElements and hash are computed, and postgresTransaction sends BEGIN.
\* The id of the group row is the next of the table's sequence, which a
\* rollback does not give back.
DbCreateElementGroup(w, teamId, elements, fault) ==
    /\ pc[w] = "store"
    /\ nEvents < MaxGroupCalls
    /\ nEvents' = nEvents + 1
    /\ ev' = [ev EXCEPT ![w] = [PlainEvent("$autocapture", None, "a", teamId)
                                   EXCEPT !.elements = elements, !.fault = fault]]
    /\ tx' = [tx EXCEPT ![w] =
                [open |-> TRUE, person_id |-> 0, rows |-> {},
                 group |-> ElementGroupRow(nEvents', hashElements(cleanedElements(elements)),
                                           teamId, <<>>)]]
    /\ pc' = [pc EXCEPT ![w] = "eg_insert_group"]
    /\ outcome' = [outcome EXCEPT ![w] = None]
    /\ result' = [result EXCEPT ![w] = undefined]
    /\ UNCHANGED <<dbVars, localVars, idError, sink, elementgroups, sentry>>
    /\ Observe(w, hist[w])

\* an error of a query that is no violation of a constraint
internal_error == [name |-> "DatabaseError", code |-> "XX000"]

\* the catch of createElementGroup that throws every error further
Absorbed_None(error) == FALSE

\* the catch of createElementGroup: if (error.code !== '23505') throw error
Absorbed(error) == error.code = "23505"

\* createElementGroup after postgresTransaction threw error: it returns hash,
\* or throws error further
EgCaught(w, error) ==
    /\ tx' = [tx EXCEPT ![w] = NoTx]
    /\ pc' = [pc EXCEPT ![w] = "store"]
    /\ IF Absorbed(error)
       THEN /\ outcome' = [outcome EXCEPT ![w] = "returned"]
            /\ result' = [result EXCEPT ![w] = [defined |-> TRUE, hash |-> tx[w].group.hash]]
       ELSE /\ outcome' = [outcome EXCEPT ![w] = error.name]
            /\ UNCHANGED result

\* the group rows other clients have inserted and not yet committed: an
\* INSERT of the same (team_id, hash) waits for their transaction to end
PendingGroups(w) ==
    {tx[v].group : v \in {u \in Workers \ {w} : pc[u] \in {"eg_insert_element", "eg_commit"}}}

\* INSERT INTO posthog_elementgroup (hash, team_id).  On the unique violation
\* postgresTransaction sends ROLLBACK and throws; createElementGroup catches
\* the error with code 23505 and returns hash.
EgInsertGroup(w) ==
    /\ pc[w] = "eg_insert_group"
    /\ ~GroupExists(PendingGroups(w), tx[w].group.team_id, tx[w].group.hash)
    /\ IF GroupExists(elementgroups, tx[w].group.team_id, tx[w].group.hash)
       THEN EgCaught(w, unique_violation)
       ELSE /\ pc' = [pc EXCEPT ![w] = "eg_insert_element"]
            /\ UNCHANGED <<tx, outcome, result>>
    /\ UNCHANGED <<dbVars, ev, localVars, idError, nEvents, sink, elementgroups, sentry>>
    /\ Observe(w, hist[w])

\* for (const element of cleanedElements): INSERT INTO posthog_element.  The
\* fault "elements" makes the INSERT of the last element fail with an error
\* that is no unique violation: postgresTransaction sends ROLLBACK and
\* throws, and createElementGroup throws further.
EgInsertElement(w) ==
    /\ pc[w] = "eg_insert_element"
    /\ LET cleaned == cleanedElements(ev[w].elements)
           n == Len(tx[w].group.elements)
       IN IF n = Len(cleaned)
          THEN /\ pc' = [pc EXCEPT ![w] = "eg_commit"]
               /\ UNCHANGED <<tx, outcome, result>>
          ELSE IF ev[w].fault = "elements" /\ n + 1 = Len(cleaned)
          THEN EgCaught(w, internal_error)
          ELSE /\ tx' = [tx EXCEPT ![w].group.elements = Append(@, cleaned[n + 1])]
               /\ UNCHANGED <<pc, outcome, result>>
    /\ UNCHANGED <<dbVars, ev, localVars, idError, nEvents, sink, elementgroups, sentry>>
    /\ Observe(w, hist[w])

\* COMMIT, and return hash
EgCommit(w) ==
    /\ pc[w] = "eg_commit"
    /\ elementgroups' = elementgroups \cup {tx[w].group}
    /\ tx' = [tx EXCEPT ![w] = NoTx]
    /\ pc' = [pc EXCEPT ![w] = "store"]
    /\ outcome' = [outcome EXCEPT ![w] = "returned"]
    /\ result' = [result EXCEPT ![w] = [defined |-> TRUE, hash |-> tx[w].group.hash]]
    /\ UNCHANGED <<dbVars, ev, localVars, idError, nEvents, sink, sentry>>
    /\ Observe(w, hist[w])

\* ---------------------------------------------------------------- Worker Pool
\* The pool is a library the repository configures (makePiscina): a fixed set
\* of worker threads, each with at most TASKS_PER_WORKER tasks in flight;
\* requests above the aggregate budget queue.  Tasks are numbered in the
\* order of their runTask calls.
Tasks == 1..MaxTasks

\* status[t]: "none" before runTask, "queued", "running" on worker on[t], then
\* settled: "result" or "WorkerCrashed".  waited: the tasks that were queued
NoPool == [workers |-> 0, tasksPerWorker |-> 0, submitted |-> 0, crashes |-> 0,
           queue |-> <<>>, status |-> [t \in Tasks |-> "none"],
           on |-> [t \in Tasks |-> 0], waited |-> {}]

Settled == {"result", "WorkerCrashed"}

Load(p, w) == Cardinality({t \in Tasks : p.status[t] = "running" /\ p.on[t] = w})

HasBudget(p) == \E w \in 1..p.workers : Load(p, w) < p.tasksPerWorker

\* pick least-loaded worker (the first of them)
LeastLoaded(p) ==
    CHOOSE w \in 1..p.workers :
        \A v \in 1..p.workers : Load(p, w) < Load(p, v) \/ (Load(p, w) = Load(p, v) /\ w <= v)

\* submit t to the least-loaded worker
Submit(p, t) == [p EXCEPT !.status[t] = "running", !.on[t] = LeastLoaded(p)]

\* the queue served from its tail
NextQueued_Last(queue) == queue[Len(queue)]

\* requests above the aggregate in-flight budget queue FIFO
NextQueued(queue) == Head(queue)

\* the queued tasks are submitted while a worker has budget
RECURSIVE Drain(_)
Drain(p) ==
    IF p.queue = <<>> \/ ~HasBudget(p) THEN p
    ELSE LET t == NextQueued(p.queue)
         IN Drain([Submit(p, t) EXCEPT
                     !.queue = SelectSeq(p.queue, LAMBDA u : u # t)])

\* run_task({task, args}) -> future<result>
runTask(p, t) ==
    IF p.queue = <<>> /\ HasBudget(p)
    THEN Submit(p, t)
    ELSE [p EXCEPT !.queue = Append(@, t), !.status[t] = "queued", !.waited = @ \cup {t}]

coreVars == <<persons, pdi, nextPersonId, nextPdiId, cohortpeople, kafkaProducer, tx, pc, ev,
              localVars, idError, outcome, result, nEvents, sink, elementgroups, sentry,
              timers, pg, hist>>

\* processCountEvents: piscina.runTask({ task: 'processEvent', args: { event } }),
\* for each event of a group before any of them is awaited
PoolRunTask ==
    /\ pool.submitted < MaxTasks
    /\ pool' = runTask([pool EXCEPT !.submitted = @ + 1], pool.submitted + 1)
    /\ UNCHANGED coreVars

\* the worker of t completes it: the future settles with the result, and the
\* pool serves its queue
PoolTaskSettles(t) ==
    /\ pool.status[t] = "running"
    /\ pool' = Drain([pool EXCEPT !.status[t] = "result"])
    /\ UNCHANGED coreVars

\* worker w crashes: its in-flight tasks fail with WorkerCrashed, the worker
\* is restarted, and the pool serves its queue
PoolWorkerCrashes(w) ==
    /\ pool.crashes < MaxCrashes
    /\ \E t \in Tasks : pool.status[t] = "running" /\ pool.on[t] = w
    /\ pool' = Drain([pool EXCEPT
                        !.crashes = @ + 1,
                        !.status = [t \in Tasks |->
                                      IF @[t] = "running" /\ pool.on[t] = w
                                      THEN "WorkerCrashed" ELSE @[t]]])
    /\ UNCHANGED coreVars

\* -------------------------------------------------------- postgresTransaction
\* One client calls DB.postgresTransaction(transaction), each awaited call a
\* step.  faults: the awaited calls of this transaction that fail; held: the
\* connections the client holds; log: the statements it sent; timer: the
\* slow-transaction watchdog; thrown: the error the returned promise rejects
\* with; n: the calls so far.
TxFaults == {"connect", "BEGIN", "transaction", "COMMIT", "ROLLBACK"}

NoPg == [pc |-> "settled", faults |-> {}, held |-> 0, releases |-> 0, log |-> <<>>,
         timer |-> "none", error |-> None, thrown |-> None, n |-> 0]

pgVars == <<persons, pdi, nextPersonId, nextPdiId, cohortpeople, kafkaProducer, pool, tx, pc,
            ev, localVars, idError, outcome, result, nEvents, sink, elementgroups, sentry,
            timers, hist>>

\* a finally block that clears the timer and keeps the client
Finally_NoRelease(p, thrown) ==
    [p EXCEPT !.pc = "settled", !.thrown = thrown,
              !.timer = IF @ = "pending" THEN "cleared" ELSE @]

\* finally { client.release(); clearTimeout(timeout) }, and the promise settles
Finally(p, thrown) ==
    [p EXCEPT !.pc = "settled", !.held = @ - 1, !.releases = @ + 1, !.thrown = thrown,
              !.timer = IF @ = "pending" THEN "cleared" ELSE @]

\* const timeout = timeoutGuard(`Postgres slow transaction warning after 30 sec!`)
PgStart(faults) ==
    /\ pg.pc = "settled"
    /\ pg.n < MaxTransactions
    /\ pg' = [pg EXCEPT !.pc = "connect", !.faults = faults, !.releases = 0, !.log = <<>>,
                        !.timer = "pending", !.error = None, !.thrown = None, !.n = @ + 1]
    /\ UNCHANGED pgVars

\* const client = await this.postgres.connect(), outside the try block
PgConnect ==
    /\ pg.pc = "connect"
    /\ pg' = IF "connect" \in pg.faults
             THEN [pg EXCEPT !.pc = "settled", !.thrown = "connect"]
             ELSE [pg EXCEPT !.pc = "BEGIN", !.held = @ + 1]
    /\ UNCHANGED pgVars

\* await client.query('BEGIN'); await transaction(client); each may throw
\* into the catch block
PgTry ==
    /\ pg.pc \in {"BEGIN", "transaction"}
    /\ LET sent == IF pg.pc = "BEGIN" THEN [pg EXCEPT !.log = Append(@, "BEGIN")] ELSE pg
       IN pg' = IF pg.pc \in pg.faults
                THEN [sent EXCEPT !.pc = "ROLLBACK", !.error = pg.pc]
                ELSE [sent EXCEPT !.pc = IF pg.pc = "BEGIN" THEN "transaction" ELSE "COMMIT"]
    /\ UNCHANGED pgVars

\* await client.query('COMMIT'); return response
PgCommit ==
    /\ pg.pc = "COMMIT"
    /\ LET sent == [pg EXCEPT !.log = Append(@, "COMMIT")]
       IN pg' = IF "COMMIT" \in pg.faults
                THEN [sent EXCEPT !.pc = "ROLLBACK", !.error = "COMMIT"]
                ELSE Finally(sent, None)
    /\ UNCHANGED pgVars

\* catch (e) { await client.query('ROLLBACK'); throw e }: a ROLLBACK that
\* fails throws its own error instead of e
PgRollback ==
    /\ pg.pc = "ROLLBACK"
    /\ pg' = Finally([pg EXCEPT !.log = Append(@, "ROLLBACK")],
                     IF "ROLLBACK" \in pg.faults THEN "ROLLBACK" ELSE pg.error)
    /\ UNCHANGED pgVars

\* the watchdog fires after 30 sec, unless it was cleared: it logs a warning
PgTimerFires ==
    /\ pg.timer = "pending"
    /\ pg' = [pg EXCEPT !.timer = "fired"]
    /\ UNCHANGED pgVars

\* ------------------------------------------------------------ initial states
\* The store as earlier events left it: empty, or person 1 owning "a" and
\* person 2 owning "b" in team 1, each created by an ordinary event.
SeedPersons(ca, cb, pa, pb) ==
    {PersonRow(1, 1, ca, pa, FALSE), PersonRow(2, 1, cb, pb, FALSE)}
SeedPdi == {PdiRow(1, "a", 1, 1), PdiRow(2, "b", 2, 1)}

InitWorkers(pcs, held) ==
    /\ tx = [w \in Workers |-> NoTx]
    /\ pc = pcs
    /\ ev = [w \in Workers |-> NoEvent]
    /\ oldPerson = held
    /\ newPerson = [w \in Workers |-> NoPerson]
    /\ personFound = [w \in Workers |-> NoPerson]
    /\ incremented = [w \in Workers |-> NoQueryResult]
    /\ retryIfFailed = [w \in Workers |-> TRUE]
    /\ failedAttempts = [w \in Workers |-> 0]
    /\ idError = [w \in Workers |-> None]
    /\ outcome = [w \in Workers |-> None]
    /\ result = [w \in Workers |-> undefined]
    /\ nEvents = 0
    /\ sink = {}
    /\ elementgroups = {}
    /\ sentry = [w \in Workers |-> 0]
    /\ hist = [w \in Workers |-> NoHist]
    /\ timers = [w \in Workers |-> NoTimers]

InitLocalsHolding(pcs, held) ==
    /\ InitWorkers(pcs, held)
    /\ pool = NoPool
    /\ pg = NoPg

InitEmpty ==
    /\ persons = {} /\ pdi = {} /\ nextPersonId = 1 /\ nextPdiId = 1
    /\ cohortpeople = {}
    /\ kafkaProducer = NoProducer

InitSeeded ==
    /\ \E ca, cb \in Times, pa, pb \in Props : persons = SeedPersons(ca, cb, pa, pb)
    /\ pdi = SeedPdi /\ nextPersonId = 3 /\ nextPdiId = 3
    /\ cohortpeople = {1}
    /\ kafkaProducer = NoProducer

InitSeededOne ==
    /\ persons = SeedPersons(1, MaxTime, [k \in Keys |-> 1], EmptyProps)
    /\ pdi = SeedPdi /\ nextPersonId = 3 /\ nextPdiId = 3
    /\ cohortpeople = {1}
    /\ kafkaProducer = NoProducer

InitLocals(pcs) == InitLocalsHolding(pcs, [w \in Workers |-> NoPerson])

\* the person of "a" holds any properties
InitSeededProps ==
    /\ \E pa \in Props : persons = SeedPersons(1, MaxTime, pa, EmptyProps)
    /\ pdi = SeedPdi /\ nextPersonId = 3 /\ nextPdiId = 3
    /\ cohortpeople = {1}
    /\ kafkaProducer = NoProducer

\* two workers process events concurrently
Init ==
    /\ InitEmpty \/ InitSeededOne
    /\ InitLocals([w \in Workers |-> "idle"])

\* one worker processes events, with no concurrent peer
InitSeq ==
    /\ InitEmpty \/ InitSeeded
    /\ InitLocals([w \in Workers |-> IF w = "w1" THEN "idle" ELSE "off"])

\* three persons of team 1, owning "a", "b" and "x"
InitThree ==
    /\ persons = {PersonRow(i, 1, MaxTime, EmptyProps, FALSE) : i \in 1..3}
    /\ pdi = {PdiRow(1, "a", 1, 1), PdiRow(2, "b", 2, 1), PdiRow(3, "x", 3, 1)}
    /\ nextPersonId = 4 /\ nextPdiId = 4
    /\ cohortpeople = {}
    /\ kafkaProducer = NoProducer

\* two workers process $create_alias events of mapped distinct ids concurrently
InitMerge ==
    /\ InitThree
    /\ InitLocals([w \in Workers |-> "idle"])

\* one worker processes one event, with no concurrent peer
InitCapture ==
    /\ InitEmpty \/ InitSeededProps
    /\ InitLocals([w \in Workers |-> IF w = "w1" THEN "idle" ELSE "off"])

\* one worker processes one event while a client of the store, which holds
\* the person of "a" if there is one, deletes and creates persons
InitProps ==
    /\ InitEmpty \/ InitSeededProps
    /\ InitLocalsHolding([w \in Workers |-> IF w = "w1" THEN "idle" ELSE "store"],
                         [w \in Workers |-> IF w = "w1" THEN NoPerson
                                            ELSE fetchPerson(persons, pdi, 1, "a")])

\* two clients call the Person Store directly
InitDB ==
    /\ InitEmpty
    /\ InitLocals([w \in Workers |-> "store"])

\* one client calls the Person Store, whose log producer is configured
InitLog ==
    /\ persons = {} /\ pdi = {} /\ nextPersonId = 1 /\ nextPdiId = 1
    /\ cohortpeople = {}
    /\ kafkaProducer = Producer
    /\ InitLocals([w \in Workers |-> IF w = "w1" THEN "store" ELSE "off"])

Step(w, clock) ==
    \/ AliasFetchOld(w)
    \/ AliasFetchNew(w)
    \/ AliasAddNew(w)
    \/ AliasAddPrev(w)
    \/ \E now \in clock : AliasCreate(w, now)
    \/ MergeUpdate(w)
    \/ MergeCohort(w)
    \/ MergeMove(w)
    \/ MergeDeleteRows(w)
    \/ MergeDeleteCommit(w)
    \/ SiiFetch(w)
    \/ \E now \in clock : SiiCreate(w, now)
    \/ SiiUpdate(w)
    \/ CapIsNew(w)
    \/ \E sentAt \in clock : CapCreate(w, sentAt)
    \/ CapEmit(w)

\* in the concurrent runs every person is created at the latest time
Next ==
    \/ \E w \in Workers, e \in RaceEvents : StartEvent(w, e)
    \/ \E w \in Workers : Step(w, {MaxTime})
    \/ \E w \in Workers : SiiRefetch(w)

\* with no concurrent peer the createPerson of setIsIdentified cannot fail, and
\* its catch (SiiRefetch) is no step of these runs
NextSeq ==
    \/ \E w \in Workers, e \in SeqEvents : StartEvent(w, e)
    \/ \E w \in Workers : Step(w, Times)

\* the $create_alias events of two different distinct ids: no setIsIdentified
MergeEvents ==
    {Event("$create_alias", q[1], q[2]) :
        q \in {x \in DistinctIds \X DistinctIds : x[1] # x[2]}}

MergeStep(w) ==
    \/ AliasFetchOld(w)
    \/ AliasFetchNew(w)
    \/ AliasAddNew(w)
    \/ AliasAddPrev(w)
    \/ AliasCreate(w, MaxTime)
    \/ MergeUpdate(w)
    \/ MergeCohort(w)
    \/ MergeMove(w)
    \/ MergeDeleteRows(w)
    \/ MergeDeleteCommit(w)
    \/ CapIsNew(w)
    \/ CapCreate(w, MaxTime)
    \/ CapEmit(w)

NextMerge ==
    \/ StartEventUpTo("w1", Event("$create_alias", "a", "b"), 1)
    \/ \E e \in MergeEvents : StartEventUpTo("w2", e, MaxMergeEvents)
    \/ \E w \in Workers : MergeStep(w)

NextDB ==
    \/ \E w \in Workers, t \in Teams, d \in StoreIds, asOld \in BOOLEAN :
          DbFetchPerson(w, t, d, asOld)
    \/ \E w \in Workers, t \in Teams, ds \in DistinctIdLists : DbCreatePerson(w, t, ds)
    \/ \E w \in Workers, d \in StoreIds : DbAddDistinctId(w, d)
    \/ \E w \in Workers, r \in pdi : DbMoveDistinctId(w, r)
    \/ \E w \in Workers : DbMoveDistinctIds(w)
    \/ \E w \in Workers : DbDeletePersonRows(w)
    \/ \E w \in Workers : DbDeletePersonCommit(w)

\* the events of "a" with every data.timestamp, data.offset, sentAt and now
TimestampEvents ==
    {[Event("$pageview", None, "a") EXCEPT !.timestamp = ts, !.offset = offset,
                                           !.sent_at = sentAt, !.now = now] :
        ts \in Timestamps, offset \in 0..MaxTime, sentAt \in {NoTime} \cup Times,
        now \in Times}

\* the events of "a" with $set and $set_once
PropertyEvents ==
    {[Event(name, None, "a") EXCEPT !.props_given = TRUE, !.set = set,
                                    !.set_once = setOnce] :
        name \in {"$pageview", "$identify", "$snapshot"}, set \in Props, setOnce \in Props}

\* the events whose uuid is not valid
InvalidUuidEvents ==
    {[e EXCEPT !.uuid_valid = FALSE] :
        e \in {Event("$pageview", None, "a"), Event("$snapshot", None, "a"),
               Event("$identify", "b", "a"), Event("$create_alias", "b", "a")}}

CaptureEvents == TimestampEvents \cup PropertyEvents \cup InvalidUuidEvents

CaptureStep(w) ==
    \/ SiiFetch(w)
    \/ SiiCreate(w, MaxTime)
    \/ SiiUpdate(w)
    \/ CapIsNew(w)
    \/ CapCreate(w, MaxTime)
    \/ UppFetch(w)
    \/ UppUpdate(w)
    \/ CapEmit(w)

\* with no concurrent peer updatePersonProperties finds the person that
\* createPersonIfDistinctIdIsNew ensured: UppCreate and UppRefetch are no
\* steps of these runs
NextCapture ==
    \/ \E e \in CaptureEvents : StartEventUpTo("w1", e, 1)
    \/ CaptureStep("w1")

\* the events of "a" with $set of which a write fails or not, and the event
\* of a team that does not exist
FaultEvents ==
    {[Event(name, None, "a") EXCEPT !.props_given = TRUE, !.set = set, !.fault = fault] :
        name \in {"$pageview", "$snapshot"}, set \in Props,
        fault \in {None, "updatePerson", "sink"}}
    \cup {PlainEvent("$pageview", None, "a", MissingTeam)}

NextProps ==
    \/ \E e \in FaultEvents : StartEventUpTo("w1", e, 1)
    \/ CapIsNew("w1")
    \/ CapCreate("w1", MaxTime)
    \/ UppFetch("w1")
    \/ UppCreate("w1", MaxTime)
    \/ UppRefetch("w1")
    \/ UppUpdate("w1")
    \/ CapEmit("w1")
    \/ DbCreatePerson("w2", 1, <<"a">>)
    \/ DbDeletePersonRows("w2")
    \/ DbDeletePersonCommit("w2")

\* the calls of the store that its own source defines
NextLog ==
    \/ \E w \in Workers, t \in Teams, d \in StoreIds, asOld \in BOOLEAN :
          DbFetchPerson(w, t, d, asOld)
    \/ \E w \in Workers, t \in Teams, ds \in DistinctIdLists : DbCreatePerson(w, t, ds)
    \/ \E w \in Workers, update \in PersonUpdates : DbUpdatePerson(w, update)
    \/ \E w \in Workers, d \in StoreIds : DbAddDistinctId(w, d)
    \/ \E w \in Workers, r \in pdi : DbMoveDistinctId(w, r)
    \/ \E w \in Workers : DbDeletePersonRows(w)
    \/ \E w \in Workers : DbDeletePersonCommit(w)

Spec == Init /\ [][Next]_vars
SpecSeq == InitSeq /\ [][NextSeq]_vars
SpecDB == InitDB /\ [][NextDB]_vars
SpecLog == InitLog /\ [][NextLog]_vars
\* one worker processes one event, with no concurrent peer, in a deployment
\* with the log producer or without it
InitSink ==
    /\ \/ persons = {} /\ pdi = {} /\ nextPersonId = 1 /\ nextPdiId = 1 /\ cohortpeople = {}
       \/ /\ \E pa \in Props : persons = SeedPersons(1, MaxTime, pa, EmptyProps)
          /\ pdi = SeedPdi /\ nextPersonId = 3 /\ nextPdiId = 3
          /\ cohortpeople = {1}
    /\ kafkaProducer \in {NoProducer, Producer}
    /\ InitLocals([w \in Workers |-> IF w = "w1" THEN "idle" ELSE "off"])

\* the events of "a" with $set, $set_once and $increment
IncrementEvents ==
    {[Event(name, None, "a") EXCEPT !.props_given = TRUE, !.set = set,
                                    !.set_once = setOnce, !.increment = inc,
                                    !.elements = elements] :
        name \in {"$pageview", "$snapshot"}, set \in Props, setOnce \in Props,
        inc \in [Keys -> {Absent, 1}], elements \in {<<>>, <<"a">>}}

\* the events of "a" with an ip, an $ip, $elements, of a team that
\* anonymizes or not, of which a write fails or not
IpEvents ==
    {[PlainEvent(name, None, "a", team) EXCEPT !.ip = ip, !.props_ip = propsIp,
                                               !.elements = elements, !.fault = fault] :
        name \in {"$pageview", "$snapshot"}, team \in Teams,
        ip \in {None, "", "1.2.3.4"}, propsIp \in {None, "9.9.9.9"},
        elements \in {<<>>, <<"a">>, <<"div", "a">>},
        fault \in {None, "elements", "sink"}}

SinkEvents == SeqEvents \cup TimestampEvents \cup IncrementEvents \cup IpEvents

NextSink ==
    \/ \E e \in SinkEvents : StartEventUpTo("w1", e, 1)
    \/ Step("w1", {MaxTime})
    \/ UppFetch("w1")
    \/ UppIncrement("w1")
    \/ UppUpdate("w1")
    \/ CapInsert("w1")

SpecSink == InitSink /\ [][NextSink]_vars

\* worker w1 processes a $identify event of "a", which has a person, or of
\* "x", which has none, while its peer processes the events of the
\* concurrent runs
IdentifyEvents ==
    {Event("$identify", None, "a"), Event("$identify", None, "x"),
     Event("$identify", "b", "a")}

NextIdentify ==
    \/ \E e \in IdentifyEvents : StartEventUpTo("w1", e, 1)
    \/ \E e \in RaceEvents : StartEventUpTo("w2", e, MaxEvents)
    \/ \E w \in Workers : Step(w, {MaxTime})
    \/ \E w \in Workers : SiiRefetch(w)

\* the clients of createElementGroup store lists of elements concurrently
ElementLists == {<<"a">>, <<"div", "a">>, <<"a", "div">>}

NextElements ==
    \/ \E w \in Workers, t \in Teams, elements \in ElementLists,
          fault \in {None, "elements"} : DbCreateElementGroup(w, t, elements, fault)
    \/ \E w \in Workers : EgInsertGroup(w)
    \/ \E w \in Workers : EgInsertElement(w)
    \/ \E w \in Workers : EgCommit(w)

\* setupPiscina(workers, code, tasksPerWorker): the pool of any configuration,
\* with no task yet
InitPool ==
    /\ InitEmpty
    /\ InitWorkers([w \in Workers |-> "off"], [w \in Workers |-> NoPerson])
    /\ \E workers \in 1..MaxWorkers, tasksPerWorker \in 1..MaxTasksPerWorker :
          pool = [NoPool EXCEPT !.workers = workers, !.tasksPerWorker = tasksPerWorker]
    /\ pg = NoPg

NextPool ==
    \/ PoolRunTask
    \/ \E t \in Tasks : PoolTaskSettles(t)
    \/ \E w \in 1..MaxWorkers : PoolWorkerCrashes(w)

\* in-flight tasks run to completion or worker exit
SpecPool ==
    InitPool /\ [][NextPool]_vars /\ \A t \in Tasks : WF_vars(PoolTaskSettles(t))

\* mergePeople is public: w1 calls it directly, with the persons of "a"
\* (otherPerson) and of "b" (mergeInto) it fetched and with any
\* totalMergeAttempts, while a client of the store that holds the person of
\* "a" attaches further distinct ids to it
InitMergeCall ==
    /\ persons = SeedPersons(MaxTime, MaxTime, EmptyProps, EmptyProps)
    /\ pdi = SeedPdi /\ nextPersonId = 3 /\ nextPdiId = 3
    /\ cohortpeople = {1}
    /\ kafkaProducer = NoProducer
    /\ pool = NoPool
    /\ pg = NoPg
    /\ tx = [w \in Workers |-> NoTx]
    /\ pc = [w \in Workers |-> IF w = "w1" THEN "merge_update" ELSE "store"]
    /\ ev = [w \in Workers |-> IF w = "w1" THEN Event("$create_alias", "a", "b") ELSE NoEvent]
    /\ oldPerson = [w \in Workers |-> fetchPerson(persons, pdi, 1, "a")]
    /\ newPerson = [w \in Workers |-> IF w = "w1" THEN fetchPerson(persons, pdi, 1, "b")
                                       ELSE NoPerson]
    /\ personFound = [w \in Workers |-> NoPerson]
    /\ incremented = [w \in Workers |-> NoQueryResult]
    /\ retryIfFailed = [w \in Workers |-> TRUE]
    /\ \E totalMergeAttempts \in 0..MaxTotalMergeAttempts :
          failedAttempts = [w \in Workers |-> IF w = "w1" THEN totalMergeAttempts ELSE 0]
    /\ idError = [w \in Workers |-> None]
    /\ outcome = [w \in Workers |-> None]
    /\ result = [w \in Workers |-> undefined]
    /\ nEvents = 0
    /\ sink = {}
    /\ elementgroups = {}
    /\ sentry = [w \in Workers |-> 0]
    /\ hist = [w \in Workers |-> NoHist]
    /\ timers = [w \in Workers |-> NoTimers]

FreshIds == {"x", "y", "z"}

NextMergeCall ==
    \/ MergeUpdate("w1")
    \/ MergeCohort("w1")
    \/ MergeMove("w1")
    \/ MergeDeleteRows("w1")
    \/ MergeDeleteCommit("w1")
    \/ \E d \in FreshIds : DbAddDistinctId("w2", d)

SpecMergeCall == InitMergeCall /\ [][NextMergeCall]_vars

\* worker w1 processes an event that sets properties of the person of "b"
\* while worker w2 merges the person of "a" into the person of "b"
InitPropsRace ==
    /\ InitSeeded
    /\ InitLocals([w \in Workers |-> "idle"])

SetEvents ==
    {[Event("$pageview", None, "b") EXCEPT !.props_given = TRUE, !.set = set] :
        set \in Props \ {EmptyProps}}

NextPropsRace ==
    \/ \E e \in SetEvents : StartEventUpTo("w1", e, MaxEvents)
    \/ StartEventUpTo("w2", Event("$create_alias", "a", "b"), MaxEvents)
    \/ UppFetch("w1")
    \/ UppUpdate("w1")
    \/ AliasFetchOld("w2")
    \/ AliasFetchNew("w2")
    \/ MergeUpdate("w2")
    \/ MergeCohort("w2")
    \/ MergeMove("w2")
    \/ MergeDeleteRows("w2")
    \/ MergeDeleteCommit("w2")
    \/ \E w \in Workers : CapIsNew(w)
    \/ \E w \in Workers : CapEmit(w)

SpecPropsRace == InitPropsRace /\ [][NextPropsRace]_vars

\* one client runs transactions, any of whose awaited calls may fail
InitPg ==
    /\ InitEmpty
    /\ InitWorkers([w \in Workers |-> "off"], [w \in Workers |-> NoPerson])
    /\ pool = NoPool
    /\ pg = NoPg

NextPg ==
    \/ \E faults \in SUBSET TxFaults : PgStart(faults)
    \/ PgConnect
    \/ PgTry
    \/ PgCommit
    \/ PgRollback
    \/ PgTimerFires

SpecPg == InitPg /\ [][NextPg]_vars

\* one worker processes one event while its watchdogs may fire at any time
TimerNames == {"processEvent", "handleIdentifyOrAlias", "capture",
               "createSessionRecordingEvent"}

NextWatch ==
    \/ NextSink
    \/ \E timer \in TimerNames : WatchdogFires("w1", timer)

SpecWatch == InitSink /\ [][NextWatch]_vars
SpecIdentify == Init /\ [][NextIdentify]_vars
SpecElements == InitDB /\ [][NextElements]_vars
SpecCapture == InitCapture /\ [][NextCapture]_vars
SpecProps == InitProps /\ [][NextProps]_vars
\* every query a worker awaits completes: a worker that can step does step
SpecMerge ==
    InitMerge /\ [][NextMerge]_vars /\ \A w \in Workers : WF_vars(MergeStep(w))

\* ================================================================ properties
\* the persons that own (team, d)
Owners(D, team, d) == {r.person_id : r \in {q \in D : q.team_id = team /\ q.distinct_id = d}}

\* (team, d) is owned by an existing person of that team
Owned(P, D, team, d) ==
    \E r \in D : /\ r.team_id = team /\ r.distinct_id = d
                 /\ \E p \in P : p.id = r.person_id /\ p.team_id = team

\* C1: under any interleaving of createPerson, addDistinctId, moveDistinctId,
\* moveDistinctIds and deletePerson issued by concurrent clients of the store,
\* each (team_id, distinct_id) maps to at most one person.
C1_AtMostOneOwner ==
    \A t \in Teams, d \in DistinctIds : Cardinality(Owners(pdi, t, d)) <= 1

\* the same distinct id is mapped in both teams, to different persons, and a
\* person has been deleted
C1_Witness ==
    /\ \E r1, r2 \in pdi : /\ r1.distinct_id = r2.distinct_id
                           /\ r1.team_id # r2.team_id
                           /\ r1.person_id # r2.person_id
    /\ Cardinality(persons) < nextPersonId - 1

\* the step in which the deletePerson of worker w's mergePeople commits and
\* mergePeople returns without throwing
MergeReturns(w) ==
    /\ pc[w] = "merge_delete_commit"
    /\ pc'[w] = AfterAliasPc(ev[w])
    /\ idError'[w] = None

\* C2: when mergePeople(mergeInto = N, otherPerson = P) returns without
\* throwing, with peers attaching distinct ids to P at any time while it runs,
\* P no longer exists and every distinct id that was attached to P at any
\* moment during the merge is owned by N.
C2_MergeKeepsEveryId ==
    [][\A w \in Workers :
          MergeReturns(w) =>
              /\ ~PersonExists(persons', oldPerson[w].id)
              /\ \A d \in hist'[w].onOther :
                     Owners(pdi', oldPerson[w].team_id, d) = {newPerson[w].id}]_vars

\* C3: when a peer attaches a distinct id to P after moveDistinctIds(P, N) has
\* run and before deletePerson(P) runs, that deletePerson(P) fails and leaves
\* P and the distinct id in place for the next pass of the loop to move it to N.
C3_LateIdFailsDelete ==
    [][\A w \in Workers :
          (pc[w] = "merge_delete_commit" /\ tx[w].rows # {}) =>
              /\ pc'[w] = "merge_move"
              /\ PersonExists(persons', oldPerson[w].id)
              /\ tx[w].rows \subseteq pdi']_vars

\* C6: at the moment processEvent writes an event or a session-recording event
\* for (team_id, distinct_id), also while peers run alias or mergePeople, the
\* distinct id is owned by an existing person of the event's team.
C6_EventHasOwner ==
    [][\A w \in Workers :
          (pc[w] = "cap_emit" /\ sink' # sink) =>
              Owned(persons, pdi, ev[w].team_id, ev[w].distinct_id)]_vars

\* C4: when the two workers each process one $identify event for the same
\* (team_id, distinct_id), unseen before and with no $anon_distinct_id, then
\* once both have finished, in every interleaving of their steps, exactly one
\* distinct-id row and exactly one person exist for it (no second person is
\* left behind) and neither processEvent ended with an error.
IdentifyRaceDone(d) ==
    /\ nEvents = 2
    /\ \A w \in Workers : /\ pc[w] = "idle"
                          /\ ev[w] = Event("$identify", None, d)

C4_IdentifyRace ==
    \A d \in DistinctIds :
        IdentifyRaceDone(d) =>
            /\ Cardinality({r \in pdi : r.team_id = 1 /\ r.distinct_id = d}) = 1
            /\ Cardinality({p \in persons : \/ p.id \in Owners(pdi, 1, d)
                                            \/ IdsOf(pdi, p.id) = {}}) = 1
            /\ \A w \in Workers : outcome[w] = "returned" /\ idError[w] = None

\* both events are done and one worker's createPerson lost the race
C4_Witness ==
    \E d \in DistinctIds : IdentifyRaceDone(d) /\ \E w \in Workers : hist[w].caught

\* C5 as stated: in every committed state every existing person has at least
\* one distinct-id row.
C5_EveryPersonHasId == \A p \in persons : IdsOf(pdi, p.id) # {}

\* C5, amended: a person has at least one distinct-id row from the commit of
\* the createPerson that made it until a mergePeople of which it is the
\* otherPerson moves its distinct ids away; no other step leaves an existing
\* person without a distinct id.
C5_OnlyMergeEmptiesPerson ==
    [][\A p \in persons' :
          IdsOf(pdi', p.id) = {} =>
              /\ PersonExists(persons, p.id)
              /\ \/ IdsOf(pdi, p.id) = {}
                 \/ \E w \in Workers : /\ pc[w] = "merge_move"
                                       /\ pc'[w] = "merge_delete_rows"
                                       /\ oldPerson[w].id = p.id]_vars

\* between moveDistinctIds and deletePerson otherPerson exists with no distinct id
C5_Witness ==
    \E w \in Workers : /\ pc[w] = "merge_delete_rows"
                       /\ PersonExists(persons, oldPerson[w].id)
                       /\ IdsOf(pdi, oldPerson[w].id) = {}

\* alias(ev.alias, ev.distinct_id, ev.team_id) was called for worker w's event
\* and has just returned to handleIdentifyOrAlias
AliasDone(w) ==
    /\ ev[w].alias # None
    /\ ev[w].event \in {"$create_alias", "$identify"}
    /\ pc[w] = AfterAliasPc(ev[w])
    /\ idError[w] = None

\* the owners of the two distinct ids when worker w's event started
PrevOwners(w) == Owners(hist[w].pdi, ev[w].team_id, ev[w].alias)
NewOwners(w) == Owners(hist[w].pdi, ev[w].team_id, ev[w].distinct_id)

\* C7: with no concurrent peer, alias(prev, new, team) called when exactly one
\* of prev and new is mapped attaches the other to that person: afterwards both
\* map to it, the persons are unchanged, and the mappings are those of before
\* plus one row.
C7_AliasAttaches ==
    \A w \in Workers :
        (AliasDone(w) /\ ((PrevOwners(w) = {}) # (NewOwners(w) = {}))) =>
            /\ Owners(pdi, ev[w].team_id, ev[w].alias) = PrevOwners(w) \cup NewOwners(w)
            /\ Owners(pdi, ev[w].team_id, ev[w].distinct_id) = PrevOwners(w) \cup NewOwners(w)
            /\ persons = hist[w].persons
            /\ hist[w].pdi \subseteq pdi
            /\ Cardinality(pdi) = Cardinality(hist[w].pdi) + 1

\* an $identify whose distinct id was mapped and whose $anon_distinct_id was not
C7_Witness ==
    \E w \in Workers : /\ AliasDone(w)
                       /\ ev[w].event = "$identify"
                       /\ PrevOwners(w) = {} /\ NewOwners(w) # {}
                       /\ Owners(pdi, ev[w].team_id, ev[w].alias) = NewOwners(w)

\* C8: with no concurrent peer, alias(prev, new, team) called when neither prev
\* nor new is mapped creates exactly one new person, not identified and with
\* empty properties, that owns both distinct ids, for every prev and new.
C8_AliasCreatesOne ==
    \A w \in Workers :
        (/\ ev[w].alias # None
         /\ ev[w].event \in {"$create_alias", "$identify"}
         /\ pc[w] = AfterAliasPc(ev[w])
         /\ PrevOwners(w) = {} /\ NewOwners(w) = {}) =>
            \E p \in persons :
                /\ persons = hist[w].persons \cup {p}
                /\ p \notin hist[w].persons
                /\ ~p.is_identified /\ p.properties = EmptyProps
                /\ Owners(pdi, ev[w].team_id, ev[w].alias) = {p.id}
                /\ Owners(pdi, ev[w].team_id, ev[w].distinct_id) = {p.id}

\* C9: in the three non-merge cases of alias a failure of addDistinctId or
\* createPerson never leaves alias: with retry enabled alias is restarted, once
\* per event and with retry disabled; with retry disabled the failure is
\* swallowed and alias returns to its caller.
NonMergeCase(w) == pc[w] \in {"alias_add_new", "alias_add_prev", "alias_create"}

C9_FailureSwallowed ==
    [][\A w \in Workers :
          /\ hist'[w].restarts <= 1
          /\ (idError'[w] # None => hist'[w].merged)
          /\ (NonMergeCase(w) /\ pc'[w] # pc[w] /\ sentry'[w] # sentry[w]) =>
                 IF retryIfFailed[w]
                 THEN /\ pc'[w] = "alias_fetch_old"
                      /\ ~retryIfFailed'[w]
                      /\ hist'[w].restarts = 1
                 ELSE /\ pc'[w] = AfterAliasPc(ev[w])
                      /\ hist'[w].restarts = 1]_vars

\* alias failed, was restarted, failed again and returned to its caller
C9_Witness ==
    \E w \in Workers : /\ pc[w] = AfterAliasPc(ev[w])
                       /\ ev[w].alias # None
                       /\ hist[w].restarts = 1
                       /\ sentry[w] = 2
                       /\ ~hist[w].merged
                       /\ idError[w] = None

\* C10: with no concurrent peer, alias(prev, new) where prev is owned by P and
\* new by another person N merges P into N: afterwards P is deleted, every
\* distinct id of P is owned by N, N.created_at is the smaller of the two
\* created_at, and N.properties is P.properties overlaid by N.properties.
MergeCase(w) ==
    /\ ev[w].alias # None
    /\ ev[w].event \in {"$create_alias", "$identify"}
    /\ pc[w] = AfterAliasPc(ev[w])
    /\ PrevOwners(w) # {} /\ NewOwners(w) # {} /\ PrevOwners(w) # NewOwners(w)

C10_MergeResult ==
    \A w \in Workers :
        MergeCase(w) =>
            \E P, N \in hist[w].persons :
                /\ PrevOwners(w) = {P.id} /\ NewOwners(w) = {N.id}
                /\ idError[w] = None
                /\ ~PersonExists(persons, P.id)
                /\ \A r \in hist[w].pdi :
                       r.person_id = P.id => Owners(pdi, r.team_id, r.distinct_id) = {N.id}
                /\ \E n \in persons :
                       /\ n.id = N.id
                       /\ n.created_at = IF P.created_at < N.created_at
                                         THEN P.created_at ELSE N.created_at
                       /\ \A k \in Keys :
                              n.properties[k] = IF N.properties[k] # Absent
                                                THEN N.properties[k] ELSE P.properties[k]

\* a merge where P is the older person and both persons hold a different value
\* of the same key
C10_Witness ==
    \E w \in Workers :
        /\ MergeCase(w)
        /\ \E P, N \in hist[w].persons :
               /\ PrevOwners(w) = {P.id} /\ NewOwners(w) = {N.id}
               /\ P.created_at < N.created_at
               /\ \E k \in Keys : /\ P.properties[k] # Absent
                                  /\ N.properties[k] # Absent
                                  /\ P.properties[k] # N.properties[k]

\* C11 as stated: one top-level alias call that reaches mergePeople sees at
\* most 3 failed deletePerson iterations and at most one restart of alias.
C11_OneRestart ==
    \A w \in Workers :
        hist[w].merged => /\ hist[w].deleteFails <= MAX_FAILED_PERSON_MERGE_ATTEMPTS
                          /\ hist[w].restarts + hist[w].mergeRestarts <= 1

\* C11, amended: for one top-level alias call that reaches mergePeople, the
\* failed moveDistinctIds and deletePerson calls are at most 3 together, alias
\* is restarted at most twice by mergePeople and at most once by a catch block
\* of the non-merge cases, and the event's processing ends, whatever the peer
\* does.
C11_MergeBudget ==
    /\ [](\A w \in Workers :
             hist[w].merged =>
                 /\ hist[w].moveFails + hist[w].deleteFails
                        <= MAX_FAILED_PERSON_MERGE_ATTEMPTS
                 /\ hist[w].mergeRestarts <= 2
                 /\ hist[w].restarts <= 1)
    /\ (pc["w1"] # "idle") ~> (pc["w1"] = "idle")

\* an event that ended after mergePeople restarted alias twice
C11_Witness ==
    \E w \in Workers : /\ hist[w].mergeRestarts = 2
                       /\ pc[w] = "idle"
                       /\ outcome[w] = "returned"

\* C12: over the alias/mergePeople recursion of one event, the failed
\* moveDistinctIds and deletePerson calls together never exceed
\* MAX_FAILED_PERSON_MERGE_ATTEMPTS: the counter of the running call equals
\* the failures of the whole event (it is carried into every restart of
\* alias), and the third failure leaves handleIdentifyOrAlias as an error
FailedMergeCalls(w) == hist[w].moveFails + hist[w].deleteFails

C12_FailureBudget ==
    \A w \in Workers :
        /\ FailedMergeCalls(w) <= MAX_FAILED_PERSON_MERGE_ATTEMPTS
        /\ pc[w] # "idle" => failedAttempts[w] = FailedMergeCalls(w)
        /\ FailedMergeCalls(w) = MAX_FAILED_PERSON_MERGE_ATTEMPTS => idError[w] # None

\* a third failure after a restart of alias out of mergePeople
C12_Witness ==
    \E w \in Workers : /\ FailedMergeCalls(w) = MAX_FAILED_PERSON_MERGE_ATTEMPTS
                        /\ hist[w].mergeRestarts >= 1
                        /\ hist[w].deleteFails >= 1
                        /\ idError[w] # None

\* the messages a step queues to the log producer
Queued(before, after) == {after[i] : i \in (Len(before) + 1)..Len(after)}

\* a step commits a deletePerson transaction
DeleteCommits == \E w \in Workers : tx[w].open /\ ~tx'[w].open

\* C16 as stated: with a log producer configured, every committed mutation of
\* the Person Store queues at least one message
C16_EveryMutationQueues ==
    [][(kafkaProducer.configured /\ (persons' # persons \/ pdi' # pdi))
          => Queued(kafkaProducer.queue, kafkaProducer'.queue) # {}]_vars

\* C16, amended: with a log producer configured, every createPerson,
\* updatePerson, addDistinctId and moveDistinctId that changes a row queues at
\* least one message in the step of its commit, and a deletePerson queues none
C16_MutationsButDeleteQueue ==
    [][kafkaProducer.configured =>
          /\ ((persons' # persons \/ pdi' # pdi) /\ ~DeleteCommits)
                => Queued(kafkaProducer.queue, kafkaProducer'.queue) # {}
          /\ DeleteCommits => kafkaProducer' = kafkaProducer]_vars

\* a person was created, updated and deleted with its distinct id, and the log
\* holds the messages of the first two
C16_Witness ==
    /\ kafkaProducer.configured
    /\ persons = {} /\ pdi = {} /\ nextPersonId > 1 /\ nextPdiId > 1
    /\ Len(kafkaProducer.queue) >= 3
    /\ \E i \in 1..Len(kafkaProducer.queue) : kafkaProducer.queue[i].topic = "person_unique_id"

\* C17: every person or distinct-id message is queued after the write it
\* describes has committed: the row it describes is in the store when it is
\* queued
C17_MessageDescribesRow ==
    [][kafkaProducer.configured =>
          \A m \in Queued(kafkaProducer.queue, kafkaProducer'.queue) :
              /\ m.topic = "person" => \E p \in persons' : p.id = m.id
              /\ m.topic = "person_unique_id" => \E r \in pdi' : r.id = m.id]_vars

\* C18: a createPerson of which an insert fails leaves no person row and no
\* distinct-id row of its own, queues no message, and returns no person to
\* its caller, to whom the error is raised
C18_CreatePersonAtomic ==
    [][\A w \in Workers :
          (nEvents' # nEvents /\ hist'[w].n = nEvents' /\ hist'[w].caught)
             => /\ persons' = persons
                /\ pdi' = pdi
                /\ kafkaProducer' = kafkaProducer
                /\ oldPerson'[w] = oldPerson[w]]_vars

\* the last call was a createPerson that failed, in a store that holds a
\* person and the messages of its creation
C18_Witness ==
    \E w \in Workers : /\ nEvents > 0 /\ hist[w].n = nEvents /\ hist[w].caught
                        /\ persons # {} /\ pdi # {}
                        /\ kafkaProducer.configured /\ Len(kafkaProducer.queue) >= 2

\* the positions of capture and createSessionRecordingEvent
CapturePcs == {"cap_isnew", "cap_create", "upp_fetch", "upp_create", "upp_refetch",
               "upp_update", "cap_emit"}

\* w's call of processEvent passed the validation and has ended
Ended(w) == pc[w] = "idle" /\ hist[w].n > 0 /\ hist[w].guarded

\* the person of w's event when it started (with no properties if there was
\* none: it is created with {}), and now
PersonBefore(w) == fetchPerson(hist[w].persons, hist[w].pdi, ev[w].team_id, ev[w].distinct_id)
PersonAfter(w) == fetchPerson(persons, pdi, ev[w].team_id, ev[w].distinct_id)

\* C13: an error raised inside handleIdentifyOrAlias is caught by
\* processEvent, which goes on to capture or to the snapshot emission: the
\* event is written as it would be without the error, and processEvent returns
C13_IdentityErrorSwallowed ==
    \A w \in Workers :
        idError[w] # None =>
            \/ pc[w] \in CapturePcs
            \/ Ended(w) /\ outcome[w] = "returned" /\ EventWritten(w) \in sink

\* an event whose merge failed for the third time was written
C13_Witness ==
    \E w \in Workers : /\ idError[w] # None /\ Ended(w)
                        /\ FailedMergeCalls(w) = MAX_FAILED_PERSON_MERGE_ATTEMPTS
                        /\ EventWritten(w) \in sink

\* C14: an error raised by capture or by createSessionRecordingEvent (no
\* team, a failed updatePerson, no person found by updatePersonProperties, a
\* failed write of the event) leaves processEvent: the call ends with that
\* error, and returns a result exactly if the event was written
C14_CaptureErrorPropagates ==
    \A w \in Workers :
        Ended(w) =>
            /\ outcome[w] = "returned" <=> EventWritten(w) \in sink
            /\ (ev[w].event # "$snapshot" /\ ~fetchTeam(ev[w].team_id))
                  => outcome[w] = "No team found"
            /\ ev[w].fault = "sink" => outcome[w] # "returned"
            /\ outcome[w] \in {"returned", "No team found", "Could not find person",
                              "DatabaseError", "sink write failed"}

\* updatePersonProperties found no person, even after trying to insert it
C14_Witness ==
    \E w \in Workers : Ended(w) /\ outcome[w] = "Could not find person" /\ sink = {}

\* C15: processEvent called with an event uuid that is not valid throws at
\* once: no row of the store, no message, no event written and no error
\* report changes, the worker stays where it is and no watchdog is started
C15_InvalidUuidFails ==
    [][\A w \in Workers :
          (nEvents' # nEvents /\ hist'[w].n = nEvents' /\ ~ev'[w].uuid_valid)
             => /\ outcome'[w] = "Not a valid UUID"
                /\ ~hist'[w].guarded
                /\ UNCHANGED <<persons, pdi, nextPersonId, nextPdiId, cohortpeople, pool, pg,
                               kafkaProducer, tx, pc, localVars, sink, elementgroups, sentry>>]_vars

\* an event with an invalid uuid was refused in a store that holds persons
C15_Witness ==
    \E w \in Workers : /\ outcome[w] = "Not a valid UUID" /\ ~ev[w].uuid_valid
                        /\ persons # {} /\ pc[w] = "idle"

\* C19: handleTimestamp gives now + (timestamp - sent_at) if timestamp and
\* sent_at are there, else the parsed timestamp if timestamp is there, else
\* now - offset if offset is there, else now: the offset plays no part when a
\* timestamp is there, and the result is a function of data, now and sentAt.
\* A timestamp is there if it is a non-empty string, an offset if it is not 0.
C19_TimestampRules ==
    \A w \in Workers :
        hist[w].guarded =>
            LET e == ev[w]
                ts == hist[w].ts
                there == e.timestamp.kind \notin {"undefined", "empty"}
            IN /\ (there /\ e.sent_at # NoTime /\ e.timestamp.kind \in {"iso", "js"})
                     => ts = DateTimeAt(e.now + (e.timestamp.at - e.sent_at))
               /\ (there /\ e.sent_at = NoTime /\ e.timestamp.kind = "iso")
                     => ts = DateTimeAt(e.timestamp.at)
               /\ (there /\ e.timestamp.kind = "unparsable") => ~ts.valid
               /\ (~there /\ e.offset # 0) => ts = DateTimeAt(e.now - e.offset)
               /\ (~there /\ e.offset = 0) => ts = DateTimeAt(e.now)
               /\ (there /\ e.sent_at = NoTime /\ e.timestamp.kind = "js") => ~ts.valid
               /\ there => ts = handleTimestamp([e EXCEPT !.offset = 0], e.now, e.sent_at)

\* timestamp, sent_at and offset are all there, and the skew-corrected
\* timestamp is not now - offset
C19_Witness ==
    \E w \in Workers :
        /\ hist[w].guarded /\ pc[w] = "idle"
        /\ ev[w].timestamp.kind = "iso" /\ ev[w].sent_at # NoTime /\ ev[w].offset # 0
        /\ hist[w].ts = DateTimeAt(ev[w].now + (ev[w].timestamp.at - ev[w].sent_at))
        /\ hist[w].ts # DateTimeAt(ev[w].now - ev[w].offset)

\* w, with no peer, has processed an event that called updatePersonProperties
PropertiesUpdated(w) ==
    /\ Alone(w) /\ Ended(w) /\ outcome[w] = "returned"
    /\ ev[w].props_given /\ ev[w].event # "$snapshot"

MessagesOf(topic) ==
    {i \in 1..Len(kafkaProducer.queue) : kafkaProducer.queue[i].topic = topic}

\* the properties of the person of w's event when the event started, with the
\* amounts of $increment added
IncrementedBefore(w) ==
    [k \in Keys |-> IF ev[w].increment[k] # Absent
                    THEN PersonBefore(w).properties[k] + ev[w].increment[k]
                    ELSE PersonBefore(w).properties[k]]

\* $set_once overlaid by the properties the person had overlaid by $set
ComputedBefore(w) ==
    [k \in Keys |-> IF ev[w].set[k] # Absent THEN ev[w].set[k]
                    ELSE IF PersonBefore(w).properties[k] # Absent
                         THEN PersonBefore(w).properties[k]
                    ELSE ev[w].set_once[k]]

\* the case in which updatePersonProperties returns without writing
NothingToWrite(w) ==
    /\ ComputedBefore(w) = PersonBefore(w).properties
    /\ ~kafkaProducer.configured \/ ev[w].increment = EmptyProps

\* C21: updatePersonProperties calls updatePerson not at all, and queues no
\* person message, when the computed properties equal those the person has
\* and there is no log producer or nothing to increment; in every other case
\* it calls updatePerson exactly once, with the computed properties (into
\* which the properties of the row that the increment returned are merged).
\* Checked with no concurrent peer; the only other person message of the
\* event is that of the createPerson of a new distinct id.
C21_UpdateOnlyIfNeeded ==
    \A w \in Workers :
        PropertiesUpdated(w) =>
            /\ hist[w].updates = IF NothingToWrite(w) THEN 0 ELSE 1
            /\ kafkaProducer.configured =>
                  Cardinality(MessagesOf("person")) =
                      hist[w].updates + IF PersonBefore(w) = NoPerson THEN 1 ELSE 0
            /\ PersonAfter(w).properties =
                  IF ev[w].increment # EmptyProps THEN IncrementedBefore(w)
                  ELSE ComputedBefore(w)
            /\ (~NothingToWrite(w) /\ kafkaProducer.configured) =>
                  kafkaProducer.queue[CHOOSE i \in MessagesOf("person") :
                                         \A j \in MessagesOf("person") : j <= i].properties
                      = PersonAfter(w).properties

\* with the log producer, an event whose $increment is all that changes the
\* person: the computed properties equal the person's, and updatePerson is
\* called
C21_Witness ==
    \E w \in Workers :
        /\ PropertiesUpdated(w) /\ kafkaProducer.configured
        /\ ev[w].increment # EmptyProps
        /\ ComputedBefore(w) = PersonBefore(w).properties
        /\ hist[w].updates = 1

\* the events written for w's call: the rows of the tables, or the messages
\* of the log
RowsWritten(w) == {x \in sink : x.uuid = hist[w].n}
MessagesWritten(w) ==
    {i \in MessagesOf("events") \cup MessagesOf("session_recording_events") :
        kafkaProducer.queue[i].id = hist[w].n}

\* w, with no peer, has processed an ordinary event of a distinct id on the
\* empty store, and no write was made to fail
OrdinaryOnEmpty(w) ==
    /\ Alone(w) /\ Ended(w)
    /\ hist[w].persons = {} /\ hist[w].pdi = {}
    /\ ev[w].event \notin {"$identify", "$create_alias", "$snapshot"}
    /\ ev[w].fault = None

\* the timestamp handleTimestamp gives the event of w, from its rules
Reconciled(w) ==
    LET e == ev[w]
    IN IF e.timestamp.kind \in {"iso", "js"} /\ e.sent_at # NoTime
       THEN DateTimeAt(e.now + (e.timestamp.at - e.sent_at))
       ELSE IF e.timestamp.kind = "iso" THEN DateTimeAt(e.timestamp.at)
       ELSE IF e.timestamp.kind \in {"js", "unparsable"} THEN InvalidDateTime
       ELSE IF e.offset # 0 THEN DateTimeAt(e.now - e.offset)
       ELSE DateTimeAt(e.now)

\* C22: one ordinary event (not $identify, $create_alias or $snapshot) of an
\* unknown distinct id, processed on the empty store, creates exactly one
\* person, not identified, exactly one distinct-id row, which maps the
\* distinct id to that person, and emits exactly one event, whose timestamp
\* is the reconciled one in the format of the sink
C22_ImplicitCreate ==
    \A w \in Workers :
        OrdinaryOnEmpty(w) =>
            /\ outcome[w] = "returned"
            /\ Cardinality(persons) = 1 /\ Cardinality(pdi) = 1
            /\ \A p \in persons : ~p.is_identified /\ p.team_id = ev[w].team_id
            /\ \A r \in pdi : /\ r.distinct_id = ev[w].distinct_id
                              /\ r.team_id = ev[w].team_id
                              /\ \E p \in persons : p.id = r.person_id
            /\ IF kafkaProducer.configured
               THEN /\ sink = {}
                    /\ Cardinality(MessagesWritten(w)) = 1
                    /\ \A i \in MessagesWritten(w) :
                          /\ kafkaProducer.queue[i].topic = "events"
                          /\ kafkaProducer.queue[i].value.timestamp =
                                [format |-> "ClickHouse", valid |-> Reconciled(w).valid,
                                 at |-> Reconciled(w).at]
               ELSE /\ Cardinality(sink) = 1
                    /\ \A x \in sink :
                          /\ x.uuid = hist[w].n /\ x.kind = "event"
                          /\ x.timestamp = [format |-> "ISO", valid |-> Reconciled(w).valid,
                                            at |-> Reconciled(w).at]

\* the event of an unknown distinct id, with a timestamp and sent_at, was
\* written to the log with the skew-corrected timestamp, which is not now
C22_Witness ==
    \E w \in Workers :
        /\ OrdinaryOnEmpty(w) /\ kafkaProducer.configured
        /\ ev[w].timestamp.kind = "iso" /\ ev[w].sent_at # NoTime
        /\ Reconciled(w) # DateTimeAt(ev[w].now)
        /\ MessagesWritten(w) # {}
        /\ Cardinality(persons) = 1

\* w's call of processEvent ends in this step, and no step of it failed
EndsClean(w) ==
    /\ pc[w] # "idle" /\ pc'[w] = "idle"
    /\ outcome'[w] = "returned" /\ idError'[w] = None
    /\ sentry'[w] = sentry[w] /\ ~hist'[w].caught

\* C23: when the processing of a $identify event ends, and no step of it
\* failed, the person that owns (team_id, distinct_id) exists and is
\* identified, also when a peer merges or creates persons concurrently; and no
\* step changes is_identified of a person from true to false
C23_IdentifyIdentifies ==
    [][/\ \A w \in Workers :
             (EndsClean(w) /\ ev[w].event = "$identify") =>
                 /\ PersonAfter(w)' # NoPerson
                 /\ PersonAfter(w)'.is_identified
       /\ \A p \in persons, q \in persons' :
             (p.id = q.id /\ p.is_identified) => q.is_identified]_vars

\* w, with no peer, has processed an event and processEvent returned
Returned(w) == Alone(w) /\ Ended(w) /\ outcome[w] = "returned"

\* the kinds of the events written for w's call, to the table or to the log
KindsWritten(w) ==
    {x.kind : x \in RowsWritten(w)}
    \cup {kafkaProducer.queue[i].value.kind : i \in MessagesWritten(w)}

\* C24: a $snapshot event does not go through capture: processEvent ensures
\* that the person exists and publishes exactly one session-recording event,
\* extracts no elements and stores none, updates no event or property
\* definition and no property of the person, and returns no result; an event
\* of any other name goes through capture (one definition update, one
\* canonical event) and returns a result
C24_SnapshotSkipsCapture ==
    \A w \in Workers :
        Returned(w) =>
            /\ Cardinality(RowsWritten(w)) + Cardinality(MessagesWritten(w)) = 1
            /\ PersonAfter(w) # NoPerson
            /\ IF ev[w].event = "$snapshot"
               THEN /\ KindsWritten(w) = {"session_recording"}
                    /\ ~hist[w].extracted /\ elementgroups = {}
                    /\ hist[w].definitions = 0
                    /\ hist[w].updates = 0
                    /\ PersonAfter(w).properties = PersonBefore(w).properties
                    /\ result[w] = undefined
               ELSE /\ KindsWritten(w) = {"event"}
                    /\ hist[w].definitions = 1
                    /\ hist[w].extracted = (ev[w].elements # <<>>)
                    /\ result[w] # undefined
                    /\ result[w].event.uuid = hist[w].n

\* a $snapshot event that carries a $set the person does not have, and
\* $elements, was published as one session recording
C24_Witness ==
    \E w \in Workers :
        /\ Returned(w) /\ ev[w].event = "$snapshot"
        /\ ev[w].elements # <<>>
        /\ ev[w].set # EmptyProps /\ ev[w].set # PersonBefore(w).properties
        /\ KindsWritten(w) = {"session_recording"}

\* C25: an emitted event is written to exactly one sink.  With the log
\* producer exactly one message, keyed by the uuid of the event, is queued,
\* no row of an event and no element group is inserted and no row id is
\* returned; without it exactly one row is inserted, its id is returned and
\* no message is queued
C25_ExactlyOneSink ==
    \A w \in Workers :
        Returned(w) =>
            IF kafkaProducer.configured
            THEN /\ Cardinality(MessagesWritten(w)) = 1
                 /\ sink = {} /\ elementgroups = {}
                 /\ result[w] # undefined => result[w].eventId = NoId
            ELSE /\ Cardinality(RowsWritten(w)) = 1 /\ Cardinality(sink) = 1
                 /\ kafkaProducer.queue = <<>>
                 /\ result[w] # undefined => result[w].eventId = 1
                 /\ \A x \in sink :
                       x.elements # <<>> =>
                           \E g \in elementgroups : /\ g.hash = x.elements_hash
                                                    /\ g.team_id = x.team_id

\* with the log producer an event with $elements was queued
C25_Witness ==
    \E w \in Workers :
        /\ Returned(w) /\ ev[w].event = "$pageview" /\ ev[w].elements # <<>>
        /\ kafkaProducer.configured /\ MessagesWritten(w) # {}
        /\ result[w].elements # <<>>

\* the $ip of the properties of the events written for w's call
EmittedIps(w) ==
    {x.ip : x \in RowsWritten(w)} \cup {kafkaProducer.queue[i].value.ip : i \in MessagesWritten(w)}

\* capture added $ip to the properties of w's event
IpAdded(w) == ev[w].props_ip = None /\ EmittedIps(w) # {None}

\* w, with no peer, has processed an event that went through capture
Captured(w) == Returned(w) /\ ev[w].event # "$snapshot"

\* C26 as stated: capture adds $ip if and only if ip is not null, the team
\* does not anonymize ips and the properties have no $ip
C26_IpAddedIffNotNull ==
    \A w \in Workers :
        Captured(w) =>
            (IpAdded(w) <=> /\ ev[w].ip # None
                            /\ ~anonymize_ips(ev[w].team_id)
                            /\ ev[w].props_ip = None)

\* C26, amended: capture adds $ip, with the value ip, if and only if ip is
\* neither null nor the empty string, the team does not anonymize ips and
\* the properties have no $ip; for a team that anonymizes ips the client ip
\* is never added; an $ip the client supplied is emitted as it came
C26_IpAddedIffGiven ==
    \A w \in Workers :
        Captured(w) =>
            /\ IpAdded(w) <=> /\ ev[w].ip \notin {None, ""}
                              /\ ~anonymize_ips(ev[w].team_id)
                              /\ ev[w].props_ip = None
            /\ IpAdded(w) => EmittedIps(w) = {ev[w].ip}
            /\ (anonymize_ips(ev[w].team_id) /\ ev[w].props_ip = None) => EmittedIps(w) = {None}
            /\ ev[w].props_ip # None => EmittedIps(w) = {ev[w].props_ip}

\* the event of a team that does not anonymize ips, with an ip and no $ip,
\* was emitted with $ip = ip
C26_Witness ==
    \E w \in Workers :
        /\ Captured(w) /\ ~anonymize_ips(ev[w].team_id)
        /\ ev[w].ip = "1.2.3.4" /\ ev[w].props_ip = None
        /\ EmittedIps(w) = {"1.2.3.4"}

\* in this step w enters a catch block that does not throw further: that of
\* processEvent around handleIdentifyOrAlias, of setIsIdentified, of
\* updatePersonProperties or of createPersonIfDistinctIdIsNew
Swallows(w) ==
    \/ idError'[w] # idError[w] /\ idError'[w] # None
    \/ pc[w] = "sii_create" /\ pc'[w] = "sii_refetch"
    \/ pc[w] = "upp_create" /\ pc'[w] = "upp_refetch"
    \/ pc[w] = "cap_create" /\ pc'[w] # "cap_create" /\ persons' = persons

\* C27: every error that the core catches and does not propagate is
\* reported to the error sink (with the offending event): the step that
\* enters the catch block calls Sentry.captureException
C27_SwallowedIsReported ==
    [][\A w \in Workers : Swallows(w) => sentry'[w] > sentry[w]]_vars

\* in this step the client w of the store calls addDistinctId(oldPerson, d)
\* with a distinct id d that a row of the person's team carries already
AddsMapped(w) ==
    /\ hist'[w].add # hist[w].add
    /\ UniqueViolation(pdi, oldPerson[w].team_id, hist'[w].add.distinct_id)

AddLeavesStore ==
    /\ pdi' = pdi
    /\ nextPdiId' = nextPdiId
    /\ persons' = persons
    /\ kafkaProducer' = kafkaProducer

\* C28 as stated: addDistinctId with a distinct id that is already mapped in
\* the team fails with a RaceConditionError, inserts no row, queues no
\* message and leaves the existing mapping unchanged
C28_AddMappedRaceCondition ==
    [][\A w \in Workers :
          AddsMapped(w) => /\ hist'[w].add.error.name = "RaceConditionError"
                           /\ AddLeavesStore]_vars

\* C28 amended: addDistinctId with a distinct id that is already mapped in
\* the team fails with the database's unique-violation error (code 23505),
\* inserts no row, queues no message and leaves the existing mapping
\* unchanged; a call that throws nothing inserts one row and queues one
\* message
C28_AddMappedFails ==
    [][\A w \in Workers :
          /\ AddsMapped(w) => /\ hist'[w].add.error = unique_violation
                              /\ AddLeavesStore
          /\ (hist'[w].add # hist[w].add /\ hist'[w].add.error = NoError) =>
                /\ Cardinality(pdi') = Cardinality(pdi) + 1
                /\ Len(kafkaProducer'.queue) = Len(kafkaProducer.queue) + 1]_vars

\* an add of a distinct id that another person of the team owns has failed,
\* after messages were queued
C28_Witness ==
    \E w \in Workers :
        /\ hist[w].add.error = unique_violation
        /\ hist[w].add.n = nEvents
        /\ oldPerson[w] # NoPerson
        /\ \E r \in pdi : /\ r.distinct_id = hist[w].add.distinct_id
                          /\ r.team_id = oldPerson[w].team_id
                          /\ r.person_id # oldPerson[w].id
        /\ kafkaProducer.queue # <<>>

\* the client w called createElementGroup and the call has ended
GroupCallEnded(w) == pc[w] = "store" /\ ev[w] # NoEvent /\ outcome[w] # None

HashOf(w) == hashElements(cleanedElements(ev[w].elements))

\* the stored groups of the team and hash of w's call
GroupsOf(w) == {g \in elementgroups : g.team_id = ev[w].team_id /\ g.hash = HashOf(w)}

\* C29: createElementGroup is race-safe and content-addressed: at most one
\* element group exists for (team_id, hash); a stored group has all of its
\* element rows, in order; a caller that returns gets the hash of its
\* ordered list, which then has its group, so callers of the same list get
\* the same hash; no caller sees an error unless an INSERT failed with an
\* error other than 23505, and that error is thrown to the caller with
\* nothing stored
C29_ElementGroupRaceSafe ==
    /\ [](/\ \A g, h \in elementgroups :
                (g.team_id = h.team_id /\ g.hash = h.hash) => g = h
          /\ \A g \in elementgroups :
                /\ g.elements # <<>>
                /\ g.hash = hashElements(g.elements)
                /\ \A i \in 1..Len(g.elements) : g.elements[i].order = i - 1
          /\ \A w \in Workers :
                GroupCallEnded(w) =>
                    /\ outcome[w] = "returned" =>
                          /\ result[w] = [defined |-> TRUE, hash |-> HashOf(w)]
                          /\ Cardinality(GroupsOf(w)) = 1
                          /\ \A g \in GroupsOf(w) : g.elements = cleanedElements(ev[w].elements)
                    /\ outcome[w] # "returned" =>
                          /\ outcome[w] = "DatabaseError"
                          /\ ev[w].fault = "elements"
                          /\ result[w] = undefined
          /\ \A w, v \in Workers :
                (/\ GroupCallEnded(w) /\ GroupCallEnded(v)
                 /\ outcome[w] = "returned" /\ outcome[v] = "returned"
                 /\ ev[w].team_id = ev[v].team_id) =>
                    (result[w] = result[v] <=> ev[w].elements = ev[v].elements))
    /\ [][\A w \in Workers :
            (/\ pc[w] = "eg_insert_element" /\ pc'[w] # pc[w]
             /\ ev[w].fault = "elements") =>
                /\ outcome'[w] = "DatabaseError"
                /\ elementgroups' = elementgroups]_vars

\* two clients stored the same list for the same team, both calls have
\* returned, the second after a unique violation: one group is stored, and
\* it is not the one the second began
C29_Witness ==
    /\ \A w \in Workers : GroupCallEnded(w) /\ outcome[w] = "returned"
    /\ ev["w1"] = ev["w2"]
    /\ Len(ev["w1"].elements) = 2
    /\ Cardinality(elementgroups) = 1
    /\ nEvents = 2
    /\ \A g \in elementgroups : g.id = 1

\* C30: every task submitted to the worker pool with runTask eventually
\* settles, with its result or with WorkerCrashed, for every number of
\* workers and every TASKS_PER_WORKER, also when more tasks are submitted
\* than the aggregate in-flight budget; no worker has more than
\* TASKS_PER_WORKER tasks in flight, and when a queued task is started no
\* task submitted before it stays queued
C30_TasksSettleFifo ==
    /\ \A t \in Tasks : (pool.status[t] \in {"queued", "running"}) ~> (pool.status[t] \in Settled)
    /\ [](\A w \in 1..pool.workers : Load(pool, w) <= pool.tasksPerWorker)
    /\ [][\A t \in Tasks :
            (pool.status[t] = "queued" /\ pool.status'[t] # "queued") =>
                /\ pool.status'[t] = "running"
                /\ \A u \in 1..(t - 1) : pool.status'[u] # "queued"]_vars

\* every task has settled, after more tasks than the budget were in the pool
\* at once, so that some waited in the queue, and after a worker crashed
C30_Witness ==
    /\ \A t \in Tasks : pool.status[t] \in Settled
    /\ Cardinality(pool.waited) >= 2
    /\ \E t \in Tasks : pool.status[t] = "WorkerCrashed"
    /\ \E t \in pool.waited : pool.status[t] = "result"

\* C32: the watchdogs of processEvent are observational only: a step in
\* which a watchdog fires changes nothing but the timers (not the position,
\* the outcome, the result, the store or the sinks); every watchdog
\* processEvent started is no longer pending when
\* processEvent has returned or thrown, and the watchdog of
\* handleIdentifyOrAlias is no longer pending once it has ended
C32_WatchdogsObservational ==
    /\ [](\A w \in Workers :
            /\ pc[w] \in CallerPcs => timers[w].pending = {}
            /\ pc[w] \notin CallerPcs =>
                  /\ timers[w].pending \cup timers[w].fired =
                        {"processEvent", InnerTimer(pc[w], ev[w])} \cup
                        (timers[w].fired \cap {"handleIdentifyOrAlias"})
                  /\ pc[w] \notin IdentityPcs => "handleIdentifyOrAlias" \notin timers[w].pending)
    /\ [][\A w \in Workers :
            (timers'[w].fired # timers[w].fired /\ timers[w].fired \subseteq timers'[w].fired) =>
                /\ pc' = pc /\ outcome' = outcome /\ result' = result /\ ev' = ev
                /\ persons' = persons /\ pdi' = pdi /\ sink' = sink
                /\ kafkaProducer' = kafkaProducer /\ elementgroups' = elementgroups
                /\ sentry' = sentry /\ idError' = idError]_vars

\* processEvent threw after its outer watchdog and the one of capture fired
C32_Witness ==
    /\ pc["w1"] = "idle"
    /\ outcome["w1"] \notin {None, "returned"}
    /\ timers["w1"] = [pending |-> {}, fired |-> {"processEvent", "capture"}]

\* C33: the retry loop of mergePeople never runs more than
\* MAX_FAILED_PERSON_MERGE_ATTEMPTS iterations, whatever totalMergeAttempts
\* it was called with: while the loop runs, fewer than
\* MAX_FAILED_PERSON_MERGE_ATTEMPTS of its iterations have failed
C33_MergeLoopBounded ==
    \A w \in Workers :
        InMerge(pc[w]) =>
            hist[w].deleteFails + hist[w].moveFails < MAX_FAILED_PERSON_MERGE_ATTEMPTS

\* w's moveDistinctIds call of this step failed
MoveFails(w) == hist'[w].moveFails > hist[w].moveFails

\* C34: in mergePeople the steps run in the order update-into,
\* reassign-cohorts, move-distinct-ids, delete-other: the cohorts follow the
\* update, the loop follows the cohorts, deletePerson is entered only from a
\* moveDistinctIds that succeeded in the same step, and after a failed
\* moveDistinctIds the invocation ends (restart of alias, or error) without
\* a deletePerson; a failed deletePerson goes back to moveDistinctIds
C34_MergeOrder ==
    [][\A w \in Workers :
          /\ (pc[w] = "merge_update" /\ pc'[w] # pc[w]) => pc'[w] = "merge_cohort"
          /\ (pc[w] = "merge_cohort" /\ pc'[w] # pc[w]) => pc'[w] = "merge_move"
          /\ (pc'[w] = "merge_cohort" /\ pc'[w] # pc[w]) => pc[w] = "merge_update"
          /\ (pc'[w] = "merge_move" /\ pc'[w] # pc[w]) =>
                pc[w] \in {"merge_cohort", "merge_delete_commit"}
          /\ (pc'[w] = "merge_delete_rows" /\ pc'[w] # pc[w]) =>
                pc[w] = "merge_move" /\ ~MoveFails(w)
          /\ (pc'[w] = "merge_delete_commit" /\ pc'[w] # pc[w]) => pc[w] = "merge_delete_rows"
          /\ (tx'[w].open /\ ~tx[w].open) => pc[w] = "merge_delete_rows"
          /\ MoveFails(w) =>
                /\ pc[w] = "merge_move"
                /\ ~InMerge(pc'[w])
                /\ ~tx'[w].open
                /\ persons' = persons]_vars

\* after a moveDistinctIds that failed, alias was restarted and its
\* mergePeople has moved the distinct ids and is deleting the other person
C34_Witness ==
    \E w \in Workers : /\ hist[w].moveFails >= 1
                       /\ hist[w].mergeRestarts >= 1
                       /\ pc[w] = "merge_delete_commit"
                       /\ tx[w].open

\* w's deletePerson call of this step failed
DeleteFails(w) == hist'[w].deleteFails > hist[w].deleteFails

BudgetLeft(w) == failedAttempts[w] + 1 < MAX_FAILED_PERSON_MERGE_ATTEMPTS

\* C35: mergePeople restarts alias (retry disabled, the incremented count)
\* after a RaceConditionError of moveDistinctIds only with budget left, and
\* re-enters its loop after a database error of deletePerson only with
\* budget left; with the budget exhausted the error is propagated
C35_RetryOnlyWithBudget ==
    [][\A w \in Workers :
          /\ MoveFails(w) =>
                IF BudgetLeft(w)
                THEN /\ pc'[w] = "alias_fetch_old"
                     /\ ~retryIfFailed'[w]
                     /\ failedAttempts'[w] = failedAttempts[w] + 1
                     /\ idError'[w] = idError[w]
                ELSE idError'[w] = "RaceConditionError" /\ ~InMerge(pc'[w])
          /\ DeleteFails(w) =>
                IF BudgetLeft(w)
                THEN pc'[w] = "merge_move" /\ idError'[w] = idError[w]
                ELSE idError'[w] = "DatabaseError" /\ ~InMerge(pc'[w])]_vars

\* ------------------------------------------------------------------------ C36
PgDone == pg.pc = "settled" /\ pg.n > 0

\* the transaction committed: BEGIN, COMMIT and no error
PgCommitted == pg.log = <<"BEGIN", "COMMIT">> /\ pg.thrown = None

\* the transaction rolled back: BEGIN first, one ROLLBACK and it is the last
\* statement, a COMMIT only when COMMIT is what failed
PgRolledBack ==
    /\ Len(pg.log) \in 2..3
    /\ pg.log[1] = "BEGIN"
    /\ pg.log[Len(pg.log)] = "ROLLBACK"
    /\ Len(pg.log) = 3 => pg.log[2] = "COMMIT" /\ pg.error = "COMMIT"
    /\ pg.error \in {"BEGIN", "transaction", "COMMIT"}

\* C36 as stated: every settled call of postgresTransaction sent BEGIN, then
\* either committed without an error or rolled back and rejected with the
\* failure of BEGIN, the callback or COMMIT, released its connection exactly
\* once, and the client holds no connection afterwards.
C36_TransactionProtocol ==
    PgDone =>
        /\ pg.held = 0
        /\ pg.releases = 1
        /\ PgCommitted \/ (PgRolledBack /\ pg.thrown = pg.error)

\* C36 amended: the client never holds more than one connection and holds
\* none once the call settled.  A call whose connect failed sent nothing,
\* released nothing and rejects with the connect error.  Every other call
\* released its connection exactly once and either committed without an
\* error or rolled back; a rolled back call rejects with the failure of
\* BEGIN, the callback or COMMIT, unless ROLLBACK failed as well, and then it
\* rejects with the error of ROLLBACK.
C36_TransactionProtocolConnected ==
    /\ pg.held \in 0..1
    /\ PgDone =>
        /\ pg.held = 0
        /\ IF pg.thrown = "connect"
           THEN pg.log = <<>> /\ pg.releases = 0
           ELSE /\ pg.releases = 1
                /\ \/ PgCommitted
                   \/ /\ PgRolledBack
                      /\ pg.thrown = IF "ROLLBACK" \in pg.faults THEN "ROLLBACK" ELSE pg.error

\* a second transaction settled after its COMMIT failed and its ROLLBACK
\* failed too
C36_Witness ==
    /\ PgDone
    /\ pg.n = 2
    /\ pg.log = <<"BEGIN", "COMMIT", "ROLLBACK">>
    /\ pg.thrown = "ROLLBACK"
    /\ pg.held = 0

\* ------------------------------------------------------------------------ C39
\* C39: once the promise returned by postgresTransaction has settled, the
\* slow-transaction timer the call started is no longer pending, whichever
\* awaited call failed, connect included.
C39_TransactionTimerCleared ==
    PgDone => pg.timer # "pending"

\* ------------------------------------------------------------------------ C37
\* C37: no step of any worker, in any interleaving of alias and mergePeople
\* runs, loses a distinct id: every (team_id, distinct_id) that is owned by
\* an existing person before the step is owned by an existing person after it.
C37_NoIdLost ==
    [][\A r \in pdi :
          Owned(persons, pdi, r.team_id, r.distinct_id) =>
              Owned(persons', pdi', r.team_id, r.distinct_id)]_vars

\* ------------------------------------------------------------------------ C38
\* worker w1 has processed an event that sets properties of the person of
\* "b", worker w2 has processed the $create_alias event that merges the
\* person of "a" into the person of "b", and both have finished
PropsRaceDone ==
    /\ nEvents = 2
    /\ \A w \in Workers : pc[w] = "idle" /\ outcome[w] = "returned" /\ idError[w] = None
    /\ ev["w1"].set # EmptyProps
    /\ ev["w2"].event = "$create_alias"

\* C38: when one worker has run updatePersonProperties with $set on a person
\* while another worker merged a second person into that person, then after
\* both have finished the person holds every value that was set, as it does
\* when the two run one after the other in either order.
C38_PropertyWritesSurvive ==
    PropsRaceDone =>
        \A k \in Keys :
            ev["w1"].set[k] # Absent =>
                \E p \in persons :
                    /\ p.id \in Owners(pdi, 1, "b")
                    /\ p.properties[k] = ev["w1"].set[k]

====
